---------------------------- MODULE Spec2Model ----------------------------
(***************************************************************************)
(* The email-to-show heuristic parser of sona-concert-tracker              *)
(* (parseShowFromEmail and its helpers).  A string is a sequence of        *)
(* one-character strings; every regular expression of the source is an     *)
(* operator that computes the match the JavaScript engine computes         *)
(* (leftmost start, greedy quantifiers, backtracking where it can change   *)
(* the captured text).  The alphabet is ASCII: the accented range          *)
(* U+00C0..U+024F of the source's letter classes has no member here.       *)
(***************************************************************************)
EXTENDS Integers, Sequences, FiniteSets, TLC

VARIABLES menu, subject, body, pc, loc, result, calls, hook, table, put

vars == <<menu, subject, body, pc, loc, result, calls, hook, table, put>>

(***************************************************************************)
(* Values and character classes                                            *)
(***************************************************************************)

\* JavaScript's null: a one-element sequence no string of characters equals
NULL == <<"NULL">>

\* "Unknown", the default of city and venue
Unknown == <<"U","n","k","n","o","w","n">>

\* !x of JavaScript for a value that is a string or null
Falsy(x) == x = NULL \/ x = <<>>

\* a || b of JavaScript for values that are strings or null
Or(a, b) == IF Falsy(a) THEN b ELSE a

Digit == {"0","1","2","3","4","5","6","7","8","9"}

LowerLetter == {"a","b","c","d","e","f","g","h","i","j","k","l","m",
                "n","o","p","q","r","s","t","u","v","w","x","y","z"}

UpperLetter == {"A","B","C","D","E","F","G","H","I","J","K","L","M",
                "N","O","P","Q","R","S","T","U","V","W","X","Y","Z"}

Letter == LowerLetter \cup UpperLetter

\* \s of the regular expressions
WS == {" ", "\n", "\t"}

\* \w of the regular expressions (for \b)
WordChar == Letter \cup Digit \cup {"_"}

\* [A-Za-z\u00C0-\u024F\-'] of the city patterns, on the ASCII alphabet
CityChar == Letter \cup {"-", "'"}

LowerMap ==
  "A" :> "a" @@ "B" :> "b" @@ "C" :> "c" @@ "D" :> "d" @@ "E" :> "e" @@
  "F" :> "f" @@ "G" :> "g" @@ "H" :> "h" @@ "I" :> "i" @@ "J" :> "j" @@
  "K" :> "k" @@ "L" :> "l" @@ "M" :> "m" @@ "N" :> "n" @@ "O" :> "o" @@
  "P" :> "p" @@ "Q" :> "q" @@ "R" :> "r" @@ "S" :> "s" @@ "T" :> "t" @@
  "U" :> "u" @@ "V" :> "v" @@ "W" :> "w" @@ "X" :> "x" @@ "Y" :> "y" @@
  "Z" :> "z"

UpperMap ==
  "a" :> "A" @@ "b" :> "B" @@ "c" :> "C" @@ "d" :> "D" @@ "e" :> "E" @@
  "f" :> "F" @@ "g" :> "G" @@ "h" :> "H" @@ "i" :> "I" @@ "j" :> "J" @@
  "k" :> "K" @@ "l" :> "L" @@ "m" :> "M" @@ "n" :> "N" @@ "o" :> "O" @@
  "p" :> "P" @@ "q" :> "Q" @@ "r" :> "R" @@ "s" :> "S" @@ "t" :> "T" @@
  "u" :> "U" @@ "v" :> "V" @@ "w" :> "W" @@ "x" :> "X" @@ "y" :> "Y" @@
  "z" :> "Z"

DigitVal ==
  "0" :> 0 @@ "1" :> 1 @@ "2" :> 2 @@ "3" :> 3 @@ "4" :> 4 @@
  "5" :> 5 @@ "6" :> 6 @@ "7" :> 7 @@ "8" :> 8 @@ "9" :> 9

toLowerCaseChar(c) == IF c \in UpperLetter THEN LowerMap[c] ELSE c

toUpperCaseChar(c) == IF c \in LowerLetter THEN UpperMap[c] ELSE c

toLowerCase(s) == [i \in 1..Len(s) |-> toLowerCaseChar(s[i])]

toUpperCase(s) == [i \in 1..Len(s) |-> toUpperCaseChar(s[i])]

(***************************************************************************)
(* String primitives                                                       *)
(***************************************************************************)

\* the character at i, or "" (in no class) outside the string
At(s, i) == IF i >= 1 /\ i <= Len(s) THEN s[i] ELSE ""

Min(S) == CHOOSE x \in S : \A y \in S : x <= y

Max(S) == CHOOSE x \in S : \A y \in S : x >= y

\* the first index >= i whose character is outside class C (Len(s)+1 if none)
SkipWhile(s, i, C) ==
  IF i > Len(s) THEN i
  ELSE CHOOSE j \in i..(Len(s) + 1) :
         /\ (j = Len(s) + 1 \/ s[j] \notin C)
         /\ \A k \in i..(j - 1) : s[k] \in C

\* the first index >= i whose character is in class C (Len(s)+1 if none)
SkipUntil(s, i, C) ==
  IF i > Len(s) THEN i
  ELSE CHOOSE j \in i..(Len(s) + 1) :
         /\ (j = Len(s) + 1 \/ s[j] \in C)
         /\ \A k \in i..(j - 1) : s[k] \notin C

\* the last index <= i whose character is outside class C (0 if none)
BackWhile(s, i, C) ==
  IF i < 1 THEN i
  ELSE LET n == CHOOSE d \in 0..i :
                  /\ (d = i \/ s[i - d] \notin C)
                  /\ \A k \in 0..(d - 1) : s[i - k] \in C
       IN i - n

\* String.prototype.slice(a, b) with 0 <= a, on 1-based sequences:
\* characters a+1 .. min(b, length)
slice(s, a, b) == SubSeq(s, a + 1, IF b < Len(s) THEN b ELSE Len(s))

\* String.prototype.trim
trim(s) ==
  LET a == SkipWhile(s, 1, WS)
      b == BackWhile(s, Len(s), WS)
  IN IF a > b THEN <<>> ELSE SubSeq(s, a, b)

\* s.replace(/\s+/g, " ")
RECURSIVE collapseFrom(_, _)
collapseFrom(s, i) ==
  IF i > Len(s) THEN <<>>
  ELSE IF s[i] \in WS
       THEN <<" ">> \o collapseFrom(s, SkipWhile(s, i, WS))
       ELSE LET j == SkipUntil(s, i, WS)
            IN SubSeq(s, i, j - 1) \o collapseFrom(s, j)

collapseWs(s) == collapseFrom(s, 1)

\* s.split(/\s+/): the pieces between maximal whitespace runs (a leading or
\* trailing run leaves an empty first or last piece; "" gives <<"">>)
RECURSIVE splitWsFrom(_, _)
splitWsFrom(s, i) ==
  LET j == SkipUntil(s, i, WS)
  IN IF j > Len(s) THEN <<SubSeq(s, i, j - 1)>>
     ELSE <<SubSeq(s, i, j - 1)>> \o splitWsFrom(s, SkipWhile(s, j, WS))

splitWs(s) == splitWsFrom(s, 1)

\* s.split(c) for a character c: the pieces between its occurrences
RECURSIVE splitOnFrom(_, _, _)
splitOnFrom(s, c, i) ==
  LET j == SkipUntil(s, i, {c})
  IN IF j > Len(s) THEN <<SubSeq(s, i, j - 1)>>
     ELSE <<SubSeq(s, i, j - 1)>> \o splitOnFrom(s, c, j + 1)

splitOn(s, c) == splitOnFrom(s, c, 1)

\* s.split(",")
splitComma(s) == splitOn(s, ",")

\* parts.join(" ")
RECURSIVE joinSpace(_)
joinSpace(parts) ==
  IF Len(parts) = 0 THEN <<>>
  ELSE IF Len(parts) = 1 THEN parts[1]
  ELSE parts[1] \o <<" ">> \o joinSpace(Tail(parts))

\* padStart2 that returns its argument as it is
padStart2_Unpadded(x) == x

\* x.padStart(2, "0")
padStart2(x) ==
  IF Len(x) = 0 THEN <<"0","0">>
  ELSE IF Len(x) = 1 THEN <<"0">> \o x ELSE x

\* parseInt(x, 10) of a string of digits
RECURSIVE parseIntFrom(_, _, _)
parseIntFrom(x, i, acc) ==
  IF i > Len(x) THEN acc ELSE parseIntFrom(x, i + 1, acc * 10 + DigitVal[x[i]])

parseInt(x) == parseIntFrom(x, 1, 0)

\* the literal w (lower case) occurs in the lower-cased text low at i
WordAt(low, i, w) ==
  /\ i >= 1
  /\ i + Len(w) - 1 <= Len(low)
  /\ \A j \in 1..Len(w) : low[i + j - 1] = w[j]

\* all of s[i .. i+k-1] are digits
DigitsAt(s, i, k) ==
  /\ i >= 1
  /\ i + k - 1 <= Len(s)
  /\ \A j \in 0..(k - 1) : s[i + j] \in Digit

\* \d{1,2} at i followed by a character of class C: the number of digits
\* matched (0: no match).  C holds no digit, so at most one length fits.
D12(s, i, C) ==
  IF At(s, i) \in Digit /\ At(s, i + 1) \in C THEN 1
  ELSE IF At(s, i) \in Digit /\ At(s, i + 1) \in Digit /\ At(s, i + 2) \in C THEN 2
  ELSE 0

(***************************************************************************)
(* stripHtml, capitalizeCity                                               *)
(***************************************************************************)

\* html.replace(/<[^>]+>/g, " "): a "<", one or more characters other than
\* ">", and the first ">" after them become one space
RECURSIVE stripTagsFrom(_, _)
stripTagsFrom(s, i) ==
  IF i > Len(s) THEN <<>>
  ELSE IF s[i] # "<"
       THEN LET j == SkipUntil(s, i, {"<"})
            IN SubSeq(s, i, j - 1) \o stripTagsFrom(s, j)
       ELSE LET j == SkipUntil(s, i + 1, {">"})
            IN IF j <= Len(s) /\ j > i + 1
               THEN <<" ">> \o stripTagsFrom(s, j + 1)
               ELSE <<"<">> \o stripTagsFrom(s, i + 1)

stripHtml(html) == trim(collapseWs(stripTagsFrom(html, 1)))

\* word.charAt(0).toUpperCase() + word.slice(1).toLowerCase()
capitalizeWord(word) ==
  [i \in 1..Len(word) |->
     IF i = 1 THEN toUpperCaseChar(word[i]) ELSE toLowerCaseChar(word[i])]

\* the city trimmed and otherwise as it was found
capitalizeCity_AsFound(city) == trim(city)

capitalizeCity(city) ==
  LET words == splitWs(trim(city))
  IN joinSpace([i \in 1..Len(words) |-> capitalizeWord(words[i])])

(***************************************************************************)
(* parseDate                                                               *)
(***************************************************************************)

\* the longest string parseDate converts
MaxDateLen == 60

\* the longest label value, show name and subject fallback
MaxValueLen == 200

\* new Date().getFullYear()
CurrentYear == 2026

monthNames ==
  << <<"j","a","n","u","a","r","y">>,
     <<"f","e","b","r","u","a","r","y">>,
     <<"m","a","r","c","h">>,
     <<"a","p","r","i","l">>,
     <<"m","a","y">>,
     <<"j","u","n","e">>,
     <<"j","u","l","y">>,
     <<"a","u","g","u","s","t">>,
     <<"s","e","p","t","e","m","b","e","r">>,
     <<"o","c","t","o","b","e","r">>,
     <<"n","o","v","e","m","b","e","r">>,
     <<"d","e","c","e","m","b","e","r">> >>

\* String(monthNames.indexOf(m) + 1).padStart(2, "0")
monthNum(k) ==
  IF k < 10 THEN <<"0", CHOOSE c \in Digit : DigitVal[c] = k>>
  ELSE <<"1", CHOOSE c \in Digit : DigitVal[c] = k - 10>>

\* /\d{4}-\d{2}-\d{2}/ matches at i
IsoAt(s, i) ==
  /\ DigitsAt(s, i, 4)
  /\ At(s, i + 4) = "-"
  /\ DigitsAt(s, i + 5, 2)
  /\ At(s, i + 7) = "-"
  /\ DigitsAt(s, i + 8, 2)

\* /(\d{1,2})SEP(\d{1,2})SEP(\d{4})/ at i, SEP one of "." and "/": the
\* captures and the index after the match (end = 0: no match at i)
numDateCaptures(s, i, l1, l2) ==
  IF l1 > 0 /\ l2 > 0 /\ DigitsAt(s, i + l1 + l2 + 2, 4)
  THEN [a |-> SubSeq(s, i, i + l1 - 1), b |-> SubSeq(s, i + l1 + 1, i + l1 + l2),
        year |-> SubSeq(s, i + l1 + l2 + 2, i + l1 + l2 + 5), end |-> i + l1 + l2 + 6]
  ELSE [a |-> <<>>, b |-> <<>>, year |-> <<>>, end |-> 0]

\* the second number starts after the first (l1 digits) and the separator
numDateSecond(s, i, sep, l1) == numDateCaptures(s, i, l1, D12(s, i + l1 + 1, {sep}))

NumDateAt(s, i, sep) == numDateSecond(s, i, sep, D12(s, i, {sep}))

\* the leftmost index of S, 0 when S is empty: where a regular expression
\* that matches at the indices S is found by exec/match
Leftmost(S) == IF S = {} THEN 0 ELSE Min(S)

\* new RegExp(`${monthName}\\s+(\\d{1,2}),?\\s+(\\d{4})`, "i") at i
monthFirstCaptures(s, low, i, name, k) ==
  LET l  == IF DigitsAt(s, k, 2) THEN 2 ELSE IF DigitsAt(s, k, 1) THEN 1 ELSE 0
      c  == IF At(s, k + l) = "," THEN k + l + 1 ELSE k + l
      y  == SkipWhile(s, c, WS)
  IN IF WordAt(low, i, name) /\ k > i + Len(name) /\ l > 0 /\ y > c /\ DigitsAt(s, y, 4)
     THEN [day |-> SubSeq(s, k, k + l - 1), year |-> SubSeq(s, y, y + 3), end |-> y + 4]
     ELSE [day |-> <<>>, year |-> <<>>, end |-> 0]

MonthFirstAt(s, low, i, name) ==
  monthFirstCaptures(s, low, i, name, SkipWhile(s, i + Len(name), WS))

\* new RegExp(`(\\d{1,2})\\s+${monthName}\\s+(\\d{4})`, "i") at i
dayFirstCaptures(s, low, i, name, l, j) ==
  LET e  == j + Len(name)
      y  == SkipWhile(s, e, WS)
  IN IF l > 0 /\ WordAt(low, j, name) /\ y > e /\ DigitsAt(s, y, 4)
     THEN [day |-> SubSeq(s, i, i + l - 1), year |-> SubSeq(s, y, y + 3), end |-> y + 4]
     ELSE [day |-> <<>>, year |-> <<>>, end |-> 0]

DayFirstAt(s, low, i, name) ==
  dayFirstCaptures(s, low, i, name, D12(s, i, WS), SkipWhile(s, i + D12(s, i, WS), WS))

\* the for-loop over monthNames, from month k on: the first month whose
\* re1 or, failing that, re2 matches anywhere in s decides
monthDate(m, k) == m.year \o <<"-">> \o monthNum(k) \o <<"-">> \o padStart2(m.day)

\* month k with re1 found at i1 and re2 at i2 (0: not found)
monthDateAt(s, low, k, i1, i2) ==
  IF i1 > 0 THEN monthDate(MonthFirstAt(s, low, i1, monthNames[k]), k)
  ELSE IF i2 > 0 THEN monthDate(DayFirstAt(s, low, i2, monthNames[k]), k)
  ELSE NULL

\* a ?? b
firstNonNull(a, b) == IF a # NULL THEN a ELSE b

RECURSIVE parseMonthDate(_, _, _)
parseMonthDate(s, low, k) ==
  IF k > Len(monthNames) THEN NULL
  ELSE firstNonNull(
         monthDateAt(s, low, k,
           Leftmost({i \in 1..Len(s) :
                       low[i] = monthNames[k][1] /\ MonthFirstAt(s, low, i, monthNames[k]).end > 0}),
           Leftmost({i \in 1..Len(s) :
                       s[i] \in Digit /\ DayFirstAt(s, low, i, monthNames[k]).end > 0})),
         parseMonthDate(s, low, k + 1))

\* the slash branch: day and month from the two leading numbers
slashDate(m) ==
  LET an == parseInt(m.a)
      bn == parseInt(m.b)
      day   == IF an > 12 THEN padStart2(m.a)
               ELSE IF bn > 12 THEN padStart2(m.b) ELSE padStart2(m.b)
      month == IF an > 12 THEN padStart2(m.b)
               ELSE IF bn > 12 THEN padStart2(m.a) ELSE padStart2(m.a)
  IN m.year \o <<"-">> \o month \o <<"-">> \o day

\* the dot branch: DD.MM.YYYY as written
dotDate(m) == m.year \o <<"-">> \o padStart2(m.b) \o <<"-">> \o padStart2(m.a)

\* the branches of parseDate with the ISO match read as YYYY-DD-MM
parseDateAt_IsoSwapped(s, iso, dot, slash) ==
  IF iso > 0
  THEN SubSeq(s, iso, iso + 4) \o SubSeq(s, iso + 8, iso + 9) \o <<"-">> \o SubSeq(s, iso + 5, iso + 6)
  ELSE IF dot > 0 THEN dotDate(NumDateAt(s, dot, "."))
  ELSE IF slash > 0 THEN slashDate(NumDateAt(s, slash, "/"))
  ELSE parseMonthDate(s, toLowerCase(s), 1)

\* the branches of parseDate, with the leftmost match of each expression
parseDateAt(s, iso, dot, slash) ==
  IF iso > 0 THEN SubSeq(s, iso, iso + 9)
  ELSE IF dot > 0 THEN dotDate(NumDateAt(s, dot, "."))
  ELSE IF slash > 0 THEN slashDate(NumDateAt(s, slash, "/"))
  ELSE parseMonthDate(s, toLowerCase(s), 1)

\* const s = str.trim()
parseTrimmed(s) ==
  parseDateAt(s,
    Leftmost({i \in 1..Len(s) : s[i] \in Digit /\ IsoAt(s, i)}),
    Leftmost({i \in 1..Len(s) : s[i] \in Digit /\ NumDateAt(s, i, ".").end > 0}),
    Leftmost({i \in 1..Len(s) : s[i] \in Digit /\ NumDateAt(s, i, "/").end > 0}))

\* parseDate without the limit on the length of the candidate
parseDate_AnyLength(str) == IF Falsy(str) THEN NULL ELSE parseTrimmed(trim(str))

parseDate(str) ==
  IF Falsy(str) \/ Len(str) > MaxDateLen THEN NULL ELSE parseTrimmed(trim(str))

\* isReasonableEventYear without the upper end of the window
isReasonableEventYear_NoCeiling(parsedDate) ==
  parseInt(slice(parsedDate, 0, 4)) >= CurrentYear - 1

isReasonableEventYear(parsedDate) ==
  LET y == parseInt(slice(parsedDate, 0, 4))
  IN y >= CurrentYear - 1 /\ y <= CurrentYear + 2

\* parsed && isReasonableEventYear(parsed) ? parsed : (go on)
plausible(parsed) == IF parsed # NULL /\ isReasonableEventYear(parsed) THEN parsed ELSE NULL

(***************************************************************************)
(* extractDate                                                             *)
(***************************************************************************)

\* The capture ([^STOP]+) that follows a greedy run of separators
\* s[from .. p-1] (p the first index after the run), of which at least
\* `keep` characters stay with the run.  When a capturable character
\* stands at p the capture runs from p to the next STOP character; when
\* the run ends at a STOP character or at the end of the text the engine
\* backtracks and the capture is the last character of the run that is not
\* a STOP character.  NULL: no match here.
captureAfter(s, from, p, stop, keep) ==
  IF p <= Len(s) /\ s[p] \notin stop
  THEN SubSeq(s, p, SkipUntil(s, p, stop) - 1)
  ELSE LET Q == {q \in (from + keep)..(p - 1) : s[q] \notin stop}
       IN IF Q = {} THEN NULL ELSE <<s[Max(Q)]>>

dateLabels == << <<"d","a","t","e">>, <<"d","a","t","u","m">> >>

\* the label expression without its anchor at the start of a line
eventDateLabelAt_Unanchored(text, low, k) ==
  LET L == {n \in 1..Len(dateLabels) : WordAt(low, k, dateLabels[n])}
  IN IF L = {} THEN NULL
     ELSE LET e == k + Len(dateLabels[Min(L)])
              c == SkipWhile(text, e, WS)
              p == SkipWhile(text, c + 1, WS)
          IN IF At(text, c) = ":" THEN captureAfter(text, c + 1, p, {"\n"}, 0) ELSE NULL

\* /(?:^|\n)\s*(?:Date|Datum)\s*:\s*([^\n]+)/im with the label at k: the
\* captured value, NULL when the expression does not match with the label
\* there
eventDateLabelAt(text, low, k) ==
  LET L == {n \in 1..Len(dateLabels) : WordAt(low, k, dateLabels[n])}
  IN IF L = {} THEN NULL
     ELSE LET b == BackWhile(text, k - 1, WS \ {"\n"})
              e == k + Len(dateLabels[Min(L)])
              c == SkipWhile(text, e, WS)
              p == SkipWhile(text, c + 1, WS)
          IN IF (b = 0 \/ text[b] = "\n") /\ At(text, c) = ":"
             THEN captureAfter(text, c + 1, p, {"\n"}, 0)
             ELSE NULL

otherDateLabels ==
  << <<"w","h","e","n">>,
     <<"e","v","e","n","t"," ","d","a","t","e">>,
     <<"s","h","o","w"," ","d","a","t","e">>,
     <<"c","o","n","c","e","r","t"," ","d","a","t","e">>,
     <<"v","e","r","a","n","s","t","a","l","t","u","n","g","s","d","a","t","u","m">> >>

\* the first letters of the labels, and of the month names: where a match
\* of their alternation can start
otherDateInitials == {otherDateLabels[n][1] : n \in 1..Len(otherDateLabels)}

monthInitials == {monthNames[n][1] : n \in 1..Len(monthNames)}

\* /(?:when|event date|...)[\s:]+([^\n]+)/i with the label at k
otherDateLabelAt(text, low, k) ==
  LET L == {n \in 1..Len(otherDateLabels) : WordAt(low, k, otherDateLabels[n])}
  IN IF L = {} THEN NULL
     ELSE LET e == k + Len(otherDateLabels[Min(L)])
              p == SkipWhile(text, e, WS \cup {":"})
          IN IF p > e THEN captureAfter(text, e, p, {"\n"}, 1) ELSE NULL

\* /(?:january|...|december)\s+\d{1,2},?\s+\d{4}/i at i: the index after
\* the match, 0 when there is none
monthMatchEnd(text, low, i, L) ==
  IF L = {} THEN 0 ELSE MonthFirstAt(text, low, i, monthNames[Min(L)]).end

monthMatchAt(text, low, i) ==
  monthMatchEnd(text, low, i,
    {n \in 1..Len(monthNames) :
       monthNames[n][1] = low[i] /\ MonthFirstAt(text, low, i, monthNames[n]).end > 0})

\* the stages with the dot scan looking at the last occurrence in the text
dateStageStart_LastDot(text, low, stage) ==
  CASE stage = 1 ->
         Leftmost({i \in 1..Len(text) : low[i] = "d" /\ eventDateLabelAt(text, low, i) # NULL})
    [] stage = 2 ->
         Leftmost({i \in 1..Len(text) : low[i] \in otherDateInitials /\ otherDateLabelAt(text, low, i) # NULL})
    [] stage = 3 ->
         Max({0} \cup {i \in 1..Len(text) : text[i] \in Digit /\ NumDateAt(text, i, ".").end > 0})
    [] stage = 4 ->
         Leftmost({i \in 1..Len(text) : text[i] \in Digit /\ IsoAt(text, i)})
    [] stage = 5 ->
         Leftmost({i \in 1..Len(text) : text[i] \in Digit /\ NumDateAt(text, i, "/").end > 0})
    [] OTHER ->
         Leftmost({i \in 1..Len(text) : low[i] \in monthInitials /\ monthMatchAt(text, low, i) > 0})

\* the six stages of extractDate, each the value handed to parseDate
\* (NULL: the stage's expression matches nowhere)
dateStageStart(text, low, stage) ==
  CASE stage = 1 ->
         Leftmost({i \in 1..Len(text) : low[i] = "d" /\ eventDateLabelAt(text, low, i) # NULL})
    [] stage = 2 ->
         Leftmost({i \in 1..Len(text) : low[i] \in otherDateInitials /\ otherDateLabelAt(text, low, i) # NULL})
    [] stage = 3 ->
         Leftmost({i \in 1..Len(text) : text[i] \in Digit /\ NumDateAt(text, i, ".").end > 0})
    [] stage = 4 ->
         Leftmost({i \in 1..Len(text) : text[i] \in Digit /\ IsoAt(text, i)})
    [] stage = 5 ->
         Leftmost({i \in 1..Len(text) : text[i] \in Digit /\ NumDateAt(text, i, "/").end > 0})
    [] OTHER ->
         Leftmost({i \in 1..Len(text) : low[i] \in monthInitials /\ monthMatchAt(text, low, i) > 0})

\* what the stage's expression matched or captured at k, the value handed
\* to parseDate (NULL: the expression matches nowhere, k = 0)
dateStageMatch(text, low, stage, k) ==
  IF k = 0 THEN NULL
  ELSE CASE stage = 1 -> eventDateLabelAt(text, low, k)
         [] stage = 2 -> otherDateLabelAt(text, low, k)
         [] stage = 3 -> SubSeq(text, k, NumDateAt(text, k, ".").end - 1)
         [] stage = 4 -> SubSeq(text, k, k + 9)
         [] stage = 5 -> SubSeq(text, k, NumDateAt(text, k, "/").end - 1)
         [] OTHER     -> SubSeq(text, k, monthMatchAt(text, low, k) - 1)

dateStageValue(text, low, stage) ==
  dateStageMatch(text, low, stage, dateStageStart(text, low, stage))

\* the date of one stage whatever its year
plausibleDate_AnyYear(v) == IF v = NULL THEN NULL ELSE parseDate(v)

\* the plausible date of one stage, NULL when the stage finds none
plausibleDate(v) == IF v = NULL THEN NULL ELSE plausible(parseDate(v))

\* the stages with the ISO scan ahead of the dot scan
dateStage_IsoBeforeDot(text, low, stage) ==
  plausibleDate(dateStageValue(text, low, IF stage = 3 THEN 4 ELSE IF stage = 4 THEN 3 ELSE stage))

dateStage(text, low, stage) == plausibleDate(dateStageValue(text, low, stage))

RECURSIVE extractDateFrom(_, _, _)
extractDateFrom(text, low, stage) ==
  IF stage > 6 THEN NULL
  ELSE firstNonNull(dateStage(text, low, stage), extractDateFrom(text, low, stage + 1))

extractDate(text) == extractDateFrom(text, toLowerCase(text), 1)

(***************************************************************************)
(* extractLabel                                                            *)
(***************************************************************************)

\* `${label.replace(/\s+/g, "\\s+")}` at i: the index after the label, whose
\* spaces each stand for one or more whitespace characters (0: no match)
RECURSIVE labelEnd(_, _, _, _)
labelEnd(low, i, label, j) ==
  IF j > Len(label) THEN i
  ELSE IF label[j] = " "
       THEN LET n == SkipWhile(low, i, WS)
            IN IF n > i THEN labelEnd(low, n, label, j + 1) ELSE 0
       ELSE IF At(low, i) = label[j] THEN labelEnd(low, i + 1, label, j + 1) ELSE 0

\* new RegExp(`${label}[\\s:]+([^\\n<]+)`, "i") with the label at k
labelValueFrom(text, e) ==
  IF e > 0 /\ SkipWhile(text, e, WS \cup {":"}) > e
  THEN captureAfter(text, e, SkipWhile(text, e, WS \cup {":"}), {"\n", "<"}, 1)
  ELSE NULL

labelValueAt(text, low, k, label) == labelValueFrom(text, labelEnd(low, k, label, 1))

\* m[1].trim().replace(/\s+/g, " ").slice(0, 200) of the match at k; the
\* empty string when the label matches nowhere (k = 0)
labelValueOf(text, low, label, k) ==
  IF k = 0 THEN <<>>
  ELSE slice(collapseWs(trim(labelValueAt(text, low, k, label))), 0, MaxValueLen)

\* if (value.length > 0) return value
firstNonEmpty(value, rest) == IF Len(value) > 0 THEN value ELSE rest

RECURSIVE extractLabelFrom(_, _, _, _)
extractLabelFrom(text, low, labels, n) ==
  IF n > Len(labels) THEN NULL
  ELSE firstNonEmpty(
         labelValueOf(text, low, labels[n],
           Leftmost({i \in 1..Len(text) :
                       low[i] = labels[n][1] /\ labelValueAt(text, low, i, labels[n]) # NULL})),
         extractLabelFrom(text, low, labels, n + 1))

extractLabel(text, labels) == extractLabelFrom(text, toLowerCase(text), labels, 1)

(***************************************************************************)
(* The EVENTIM extractors                                                  *)
(***************************************************************************)

wEventim == <<"e","v","e","n","t","i","m">>
wOrder   == <<"o","r","d","e","r">>
wNumber  == <<"n","u","m","b","e","r">>

\* \s*-\s*order\s+number\s+\d+ matches at r
orderNumberAt(s, low, r) ==
  LET d  == SkipWhile(s, r, WS)
      o  == SkipWhile(s, d + 1, WS)
      n  == SkipWhile(s, o + Len(wOrder), WS)
      x  == SkipWhile(s, n + Len(wNumber), WS)
  IN /\ At(s, d) = "-"
     /\ WordAt(low, o, wOrder)
     /\ n > o + Len(wOrder)
     /\ WordAt(low, n, wNumber)
     /\ x > n + Len(wNumber)
     /\ At(s, x) \in Digit

\* the ends e of a lazy capture (.+?) that starts at cs
artistEnds(s, low, cs) ==
  {e \in cs..Len(s) : /\ \A x \in cs..e : s[x] # "\n"
                      /\ orderNumberAt(s, low, e + 1)}

\* /\bEVENTIM\s+order\s*:\s*(.+?)\s*-\s*order\s+number\s+\d+/i with EVENTIM
\* at k: the capture, NULL when there is no match there.  The \s* before
\* the capture is greedy and gives characters back one at a time.
\* eventimCapture is the capture for the starts CS: the earliest match of the expression has
\* the latest start of the capture (the greedy \s* before it) and its
\* earliest end
eventimCapture(s, low, CS) ==
  IF CS # {} THEN SubSeq(s, Max(CS), Min(artistEnds(s, low, Max(CS)))) ELSE NULL

\* EVENTIM at k, "order" at b, ":" at c
eventimOrderAt(s, low, k, b, c) ==
  IF /\ At(s, k - 1) \notin WordChar
     /\ WordAt(low, k, wEventim)
     /\ b > k + Len(wEventim)
     /\ WordAt(low, b, wOrder)
     /\ At(s, c) = ":"
  THEN eventimCapture(s, low, {cs \in (c + 1)..SkipWhile(s, c + 1, WS) :
                                 artistEnds(s, low, cs) # {}})
  ELSE NULL

eventimSubjectAt(s, low, k) ==
  LET b == SkipWhile(s, k + Len(wEventim), WS)
  IN eventimOrderAt(s, low, k, b, SkipWhile(s, b + Len(wOrder), WS))

eventimShowAt(subj, low, k) ==
  IF k = 0 THEN NULL
  ELSE slice(trim(eventimSubjectAt(subj, low, k)), 0, MaxValueLen)

eventimShowIn(subj, low) ==
  eventimShowAt(subj, low,
    Leftmost({i \in 1..Len(subj) :
                low[i] = wEventim[1] /\ eventimSubjectAt(subj, low, i) # NULL}))

extractEventimShowFromSubject(subj) == eventimShowIn(subj, toLowerCase(subj))

NoTriple == [found |-> FALSE, show |-> <<>>, city |-> <<>>, date |-> <<>>]

\* ([^,\n]+),\s*([^,\n]+),\s*(\d{1,2}\.\d{1,2}\.\d{4}) with the first group
\* starting at S: the three captures and the index after the date.  The
\* second group is whitespace the greedy \s* gives back when a comma stands
\* right after that whitespace.
\* tripleDate gives the third group and the result, the second group being text[g2 .. c2-1]
\* and the digits starting at p3
tripleDate(text, S, c1, p2, g2, c2, p3) ==
  LET m == NumDateAt(text, p3, ".")
  IN IF /\ c1 > S
        /\ At(text, c1) = ","
        /\ p2 <= Len(text)
        /\ (At(text, p2) = "," => (g2 > c1 /\ text[g2] # "\n"))
        /\ At(text, c2) = ","
        /\ m.end > 0
     THEN [found |-> TRUE, show |-> SubSeq(text, S, c1 - 1),
           city |-> SubSeq(text, g2, c2 - 1),
           date |-> SubSeq(text, p3, m.end - 1), end |-> m.end]
     ELSE [found |-> FALSE, show |-> <<>>, city |-> <<>>, date |-> <<>>, end |-> 0]

\* the second group, the first comma being at c1 and the blanks after it
\* ending at p2: when a comma stands at p2 the \s* gives one blank back,
\* which is then the whole group
tripleCity(text, S, c1, p2) ==
  LET back == At(text, p2) = ","
      c2 == IF back THEN p2 ELSE SkipUntil(text, p2, {",", "\n"})
  IN tripleDate(text, S, c1, p2, IF back THEN p2 - 1 ELSE p2, c2,
                SkipWhile(text, c2 + 1, WS))

tripleAt(text, S) ==
  LET c1 == SkipUntil(text, S, {",", "\n"})
  IN tripleCity(text, S, c1, SkipWhile(text, c1 + 1, WS))

\* /^ ... \s*$/m: the first group starts a line and only blanks stand
\* between the date and the end of its line
fullLineEnds(text, m) ==
  /\ m.found
  /\ LET z == SkipWhile(text, m.end, WS \ {"\n"})
     IN z > Len(text) \/ text[z] = "\n"

fullLineAt(text, S) ==
  /\ (S = 1 \/ text[S - 1] = "\n")
  /\ fullLineEnds(text, tripleAt(text, S))

\* / ... \b/ without anchors: a start S matches with the comma that ends
\* its first group, so the leftmost match starts where that group can
\* start at the earliest: at the start of the text or right after a comma
\* or a newline
inlineEnds(text, m) == m.found /\ At(text, m.end) \notin WordChar

inlineAt(text, S) ==
  /\ (S = 1 \/ text[S - 1] \in {",", "\n"})
  /\ inlineEnds(text, tripleAt(text, S))

\* the returned object whatever the year of the parsed date
eventimChecked_AnyYear(m, parsed) ==
  IF parsed = NULL THEN NoTriple
  ELSE [found |-> TRUE, show |-> slice(trim(m.show), 0, MaxValueLen),
        city |-> trim(m.city), date |-> parsed]

\* the returned object with the matched date text instead of the parsed date
eventimChecked_DateRaw(m, parsed) ==
  IF parsed = NULL \/ ~isReasonableEventYear(parsed) THEN NoTriple
  ELSE [found |-> TRUE, show |-> slice(trim(m.show), 0, MaxValueLen),
        city |-> trim(m.city), date |-> m.date]

\* const parsed = parseDate(dateStr); if (!parsed || !isReasonableEventYear(parsed)) return null
eventimChecked(m, parsed) ==
  IF parsed = NULL \/ ~isReasonableEventYear(parsed) THEN NoTriple
  ELSE [found |-> TRUE, show |-> slice(trim(m.show), 0, MaxValueLen),
        city |-> trim(m.city), date |-> parsed]

\* the match that starts at S (0: neither expression matches)
eventimAt(text, S) ==
  IF S = 0 THEN NoTriple
  ELSE eventimChecked(tripleAt(text, S), parseDate(tripleAt(text, S).date))

\* text.match(full line) ?? text.match(inline)
firstMatch(full, inline) == IF full > 0 THEN full ELSE inline

extractEventimArtistCityDate(text) ==
  eventimAt(text,
    firstMatch(
      Leftmost({S \in 1..Len(text) :
                  (S = 1 \/ text[S - 1] = "\n") /\ fullLineAt(text, S)}),
      Leftmost({S \in 1..Len(text) :
                  (S = 1 \/ text[S - 1] \in {",", "\n"}) /\ inlineAt(text, S)})))

(***************************************************************************)
(* The venue line                                                          *)
(***************************************************************************)

\* \d{4,5}\s+ at i: the index after the whitespace, 0 when no match
postalAt(s, i) ==
  LET d == IF DigitsAt(s, i, 5) /\ At(s, i + 5) \in WS THEN 5
           ELSE IF DigitsAt(s, i, 4) /\ At(s, i + 4) \in WS THEN 4 ELSE 0
  IN IF d = 0 THEN 0 ELSE SkipWhile(s, i + d, WS)

\* /\d{4,5}\s+([A-Za-z\-']+(?:\s+[A-Za-z\-']+)?)/ at i: the capture, which
\* starts at w, after the postal code and its blanks
cityAfterPostal(s, w) ==
  LET e1 == SkipWhile(s, w, CityChar)
      w2 == SkipWhile(s, e1, WS)
      e2 == SkipWhile(s, w2, CityChar)
  IN IF w = 0 \/ e1 = w THEN NULL
     ELSE IF w2 > e1 /\ e2 > w2 THEN SubSeq(s, w, e2 - 1)
     ELSE SubSeq(s, w, e1 - 1)

postalCityAt(s, i) == cityAfterPostal(s, postalAt(s, i))

\* return city.length >= 2 && city.length <= 50 ? city : null
cityInRange(city) ==
  IF city = NULL THEN NULL
  ELSE IF Len(city) >= 2 /\ Len(city) <= 50 THEN city ELSE NULL

\* m[1].trim() of the match at i, NULL when there is none (i = 0)
cityAtPostal(venueLine, i) ==
  IF i = 0 THEN NULL ELSE trim(postalCityAt(venueLine, i))

extractCityFromVenueLine(venueLine) ==
  cityInRange(
    cityAtPostal(venueLine,
      Leftmost({k \in 1..Len(venueLine) :
                  venueLine[k] \in Digit /\ postalCityAt(venueLine, k) # NULL})))

nonEmpty(x) == x # <<>>

\* venueName.replace(/\s+/g, "").toUpperCase()
squeezeUpper(s) == toUpperCase(SelectSeq(s, LAMBDA c : c \notin WS))

SO36 == <<"S","O","3","6">>

\* the returned object without the spelling rule of SO36
venueRecord_Verbatim(venueName, cityFromVenue) ==
  [venueName |-> venueName,
   cityFromVenue |-> IF ~Falsy(cityFromVenue) /\ Len(cityFromVenue) <= 50
                     THEN cityFromVenue ELSE NULL]

\* the returned object
venueRecord(venueName, cityFromVenue) ==
  [venueName |-> IF squeezeUpper(venueName) = SO36 THEN SO36 ELSE venueName,
   cityFromVenue |-> IF ~Falsy(cityFromVenue) /\ Len(cityFromVenue) <= 50
                     THEN cityFromVenue ELSE NULL]

\* the fallback of cityFromVenue: the last segment without its postal code
cityFromLast(parts, last) ==
  IF Len(parts) > 1 /\ postalAt(last, 1) > 0
  THEN trim(SubSeq(last, postalAt(last, 1), Len(last)))
  ELSE IF Len(parts) > 1 THEN last ELSE NULL

venueOfParts(trimmed, parts) ==
  venueRecord(IF Len(parts) > 0 THEN parts[1] ELSE trimmed,
              firstNonNull(extractCityFromVenueLine(trimmed),
                           cityFromLast(parts, parts[Len(parts)])))

\* trimmed.split(",").map((p) => p.trim()).filter(Boolean)
venueParts(pieces) ==
  SelectSeq([i \in 1..Len(pieces) |-> trim(pieces[i])], nonEmpty)

venueOfTrimmed(trimmed) ==
  IF trimmed = <<>> THEN [venueName |-> Unknown, cityFromVenue |-> NULL]
  ELSE venueOfParts(trimmed, venueParts(splitComma(trimmed)))

parseVenueLine(venueLine) == venueOfTrimmed(trim(venueLine))

wPromoter == <<"p","r","o","m","o","t","e","r">>

\* /\s+Promoter\s*:/i matches with its whitespace starting at i
promoterAt(s, low, i) ==
  LET w == SkipWhile(s, i, WS)
      c == SkipWhile(s, w + Len(wPromoter), WS)
  IN w > i /\ WordAt(low, w, wPromoter) /\ At(s, c) = ":"

\* venueRaw.split(/\s+Promoter\s*:/i)[0]
beforePromoter(s) ==
  LET low == toLowerCase(s)
      i == Leftmost({k \in 1..Len(s) : s[k] \in WS /\ promoterAt(s, low, k)})
  IN IF i = 0 THEN s ELSE SubSeq(s, 1, i - 1)

(***************************************************************************)
(* sanitizeCityFromLabel                                                   *)
(***************************************************************************)

sentenceWords ==
  << <<"y","o","u">>,
     <<"c","a","n">>,
     <<"s","o"," ","t","h","a","t">>,
     <<"a","t"," ","a","n","y">>,
     <<"w","h","e","n"," ","l","o","g","g","e","d">>,
     <<"p","l","e","a","s","e">>,
     <<"c","l","i","c","k">> >>

urlStarts ==
  << <<"h","t","t","p",":","/","/">>, <<"h","t","t","p","s",":","/","/">> >>

\* /[?*]|https?:\/\/|\b(you|can|so that|at any|when logged|please|click)\b/i
looksLikeSentence(s) ==
  LET low == toLowerCase(s)
  IN \E i \in 1..Len(s) :
       \/ s[i] \in {"?", "*"}
       \/ \E n \in 1..Len(urlStarts) : WordAt(low, i, urlStarts[n])
       \/ \E n \in 1..Len(sentenceWords) :
            /\ WordAt(low, i, sentenceWords[n])
            /\ At(s, i - 1) \notin WordChar
            /\ At(s, i + Len(sentenceWords[n])) \notin WordChar

\* /^[a-zA-Z\s\-'.]+$/
cityLike(s) == Len(s) > 0 /\ \A i \in 1..Len(s) : s[i] \in CityChar \cup WS \cup {"."}

\* /^[a-zA-Z\-']{2,40}$/
cityToken(w) == Len(w) >= 2 /\ Len(w) <= 40 /\ \A i \in 1..Len(w) : w[i] \in CityChar

\* the label value accepted as it stands, sentence or not
sanitizeTrimmed_AsIs(trimmed, tokens) ==
  IF trimmed = <<>> \/ Len(trimmed) > 200 THEN NULL ELSE trimmed

sanitizeTrimmed(trimmed, tokens) ==
  IF trimmed = <<>> \/ Len(trimmed) > 200 THEN NULL
  ELSE IF /\ ~looksLikeSentence(trimmed)
          /\ Len(trimmed) <= 50
          /\ cityLike(trimmed)
          /\ Len(tokens) <= 3
  THEN trimmed
  ELSE IF Len(SelectSeq(tokens, cityToken)) > 0
       THEN SelectSeq(tokens, cityToken)[Len(SelectSeq(tokens, cityToken))]
       ELSE NULL

sanitizeCityFromLabel(value) == sanitizeTrimmed(trim(value), splitWs(trim(value)))

(***************************************************************************)
(* parseShowFromEmail                                                      *)
(***************************************************************************)

venueLabels ==
  << <<"v","e","n","u","e">>,
     <<"l","o","c","a","t","i","o","n">>,
     <<"w","h","e","r","e">>,
     <<"p","l","a","c","e">>,
     <<"a","t"," ","v","e","n","u","e">>,
     <<"o","r","t">>,
     <<"v","e","r","a","n","s","t","a","l","t","u","n","g","s","o","r","t">>,
     <<"t","h","e","a","t","r","e">>,
     <<"t","h","e","a","t","e","r">>,
     <<"a","r","e","n","a">>,
     <<"h","a","l","l">> >>

cityLabels ==
  << <<"c","i","t","y">>, <<"s","t","a","d","t">>,
     <<"l","o","c","a","t","i","o","n">> >>

ortLabels == << <<"o","r","t">> >>

showLabels ==
  << <<"e","v","e","n","t">>,
     <<"v","e","r","a","n","s","t","a","l","t","u","n","g">>,
     <<"c","o","n","c","e","r","t">>,
     <<"k","o","n","z","e","r","t">>,
     <<"s","h","o","w">>,
     <<"p","e","r","f","o","r","m","a","n","c","e">>,
     <<"a","r","t","i","s","t">>,
     <<"a","c","t">>,
     <<"e","v","e","n","t"," ","n","a","m","e">>,
     <<"e","v","e","n","t","t","i","t","e","l">> >>

\* the TypeError of a property access on null
RAISED == <<"TypeError">>

\* x.method(...) with the value v it returns on a string x
onString(x, v) == IF x = NULL THEN RAISED ELSE v

\* the body stripped whether or not it contains "<"
bodyText_Always(b) == stripHtml(b)

\* body.includes("<") ? stripHtml(body) : body
bodyText(b) == IF \E i \in 1..Len(b) : b[i] = "<" THEN stripHtml(b) ELSE b

\* dateOf that asks the date stages before the vendor line
dateOf_StagesFirst(eventimFromBody, combined) ==
  Or(extractDate(combined),
     IF eventimFromBody.found THEN eventimFromBody.date ELSE NULL)

\* (eventimFromBody ? eventimFromBody.date : null) || extractDate(combined)
dateOf(eventimFromBody, combined) ==
  Or(IF eventimFromBody.found THEN eventimFromBody.date ELSE NULL,
     extractDate(combined))

\* venueLineOf that splits venueRaw without testing it first
venueLineOf_Unguarded(venueRaw) ==
  onString(venueRaw, trim(beforePromoter(venueRaw)))

\* venueRaw && venueRaw.split(/\s+Promoter\s*:/i)[0].trim()
venueLineOf(venueRaw) ==
  IF Falsy(venueRaw) THEN venueRaw
  ELSE onString(venueRaw, trim(beforePromoter(venueRaw)))

\* extractLabel(combined, ["city", "stadt", "location"]) || extractLabel(combined, ["ort"])
cityFromLabelOf(combined) ==
  Or(extractLabel(combined, cityLabels), extractLabel(combined, ortLabels))

\* cityFromLabel ? sanitizeCityFromLabel(cityFromLabel) : null
sanitizedOf(cityFromLabel) ==
  IF Falsy(cityFromLabel) THEN NULL
  ELSE onString(cityFromLabel, sanitizeCityFromLabel(cityFromLabel))

\* cityFinalOf that asks the city label before the venue line
cityFinalOf_LabelFirst(eventimFromBody, cityFromVenue, sanitized) ==
  Or(IF eventimFromBody.found THEN eventimFromBody.city ELSE NULL,
     Or(sanitized, Or(cityFromVenue, Unknown)))

\* the city chain of parseShowFromEmail
cityFinalOf(eventimFromBody, cityFromVenue, sanitized) ==
  Or(IF eventimFromBody.found THEN eventimFromBody.city ELSE NULL,
     Or(cityFromVenue, Or(sanitized, Unknown)))

\* showOf that leaves the subject at its full length
showOf_Uncut(eventimFromSubject, eventimFromBody, fromLabel, subj) ==
  Or(eventimFromSubject,
     Or(IF eventimFromBody.found THEN eventimFromBody.show ELSE NULL,
        Or(fromLabel, trim(subj))))

\* showOf that asks the show label before the vendor line
showOf_LabelFirst(eventimFromSubject, eventimFromBody, fromLabel, subj) ==
  Or(eventimFromSubject,
     Or(fromLabel,
        Or(IF eventimFromBody.found THEN eventimFromBody.show ELSE NULL,
           slice(trim(subj), 0, MaxValueLen))))

\* the show chain of parseShowFromEmail
showOf(eventimFromSubject, eventimFromBody, fromLabel, subj) ==
  Or(eventimFromSubject,
     Or(IF eventimFromBody.found THEN eventimFromBody.show ELSE NULL,
        Or(fromLabel, slice(trim(subj), 0, MaxValueLen))))

\* resultOf that also gives up when no city was found
resultOf_CityRequired(show, date, cityFinal, venueFinal) ==
  IF Falsy(show) \/ Falsy(date) \/ cityFinal = Unknown
  THEN [kind |-> "null", show |-> NULL, date |-> NULL, city |-> NULL, venue |-> NULL]
  ELSE [kind |-> "show", show |-> onString(show, trim(show)), date |-> date,
        city |-> capitalizeCity(cityFinal), venue |-> venueFinal]

\* the returned record, or null: if (!show || !date) return null
resultOf(show, date, cityFinal, venueFinal) ==
  IF Falsy(show) \/ Falsy(date)
  THEN [kind |-> "null", show |-> NULL, date |-> NULL, city |-> NULL, venue |-> NULL]
  ELSE [kind |-> "show", show |-> onString(show, trim(show)), date |-> date,
        city |-> capitalizeCity(cityFinal), venue |-> venueFinal]

\* the local constants of one call of parseShowFromEmail
localsRecord(subj, text, eventimFromSubject, eventimFromBody, date, venueRaw, venueLine, venue, cityFromLabel, sanitized, showLabel) ==
  [text |-> text, eventimFromSubject |-> eventimFromSubject,
   eventimFromBody |-> eventimFromBody, date |-> date,
   venueRaw |-> venueRaw, venueFinal |-> venue.venueName,
   cityFromVenue |-> venue.cityFromVenue, cityFromLabel |-> cityFromLabel,
   sanitized |-> sanitized,
   cityFinal |-> cityFinalOf(eventimFromBody, venue.cityFromVenue,
                             IF sanitized = RAISED THEN NULL ELSE sanitized),
   showLabel |-> showLabel,
   show |-> showOf(eventimFromSubject, eventimFromBody, showLabel, subj),
   raised |-> venueLine = RAISED \/ sanitized = RAISED]

\* venueLine ?? ""
lineOrEmpty(venueLine) == IF venueLine \in {NULL, RAISED} THEN <<>> ELSE venueLine

localsOfExtracts(subj, text, combined, eventimFromSubject, eventimFromBody, venueRaw, cityFromLabel, showLabel) ==
  localsRecord(subj, text, eventimFromSubject, eventimFromBody,
               dateOf(eventimFromBody, combined), venueRaw,
               venueLineOf(venueRaw),
               parseVenueLine(lineOrEmpty(venueLineOf(venueRaw))),
               cityFromLabel, sanitizedOf(cityFromLabel), showLabel)

localsOfText(subj, text, combined) ==
  localsOfExtracts(subj, text, combined,
                   extractEventimShowFromSubject(subj),
                   extractEventimArtistCityDate(text),
                   extractLabel(combined, venueLabels),
                   cityFromLabelOf(combined),
                   extractLabel(combined, showLabels))

locals(subj, b) == localsOfText(subj, bodyText(b), subj \o <<"\n">> \o bodyText(b))

parseShowFromEmail(l) ==
  LET r == resultOf(l.show, l.date, l.cityFinal, l.venueFinal)
  IN IF l.raised \/ r.show = RAISED
     THEN [kind |-> "raised", show |-> NULL, date |-> NULL, city |-> NULL, venue |-> NULL]
     ELSE r

(***************************************************************************)
(* The emails the parser is called on                                      *)
(***************************************************************************)

\* the most lines a composed body has
MaxLines == 2

\* "Weekly Newsletter"
SjNewsletter ==
  <<"W","e","e","k","l","y"," ","N","e","w","s","l","e","t","t","e","r">>

\* "Your EVENTIM order: Moderat - order number 123"
SjEventim ==
  <<"Y","o","u","r"," ","E","V","E","N","T","I","M"," ","o","r","d","e","r",
    ":"," ","M","o","d","e","r","a","t"," ","-"," ","o","r","d","e","r"," ",
    "n","u","m","b","e","r"," ","1","2","3">>

\* "  "
SjBlank ==
  <<" "," ">>

\* "Tickets 14.03.2025"
SjDated ==
  <<"T","i","c","k","e","t","s"," ","1","4",".","0","3",".","2","0","2","5">>

\* "Artist, Hamburg, 01.01.2026"
LnVendor ==
  <<"A","r","t","i","s","t",","," ","H","a","m","b","u","r","g",","," ","0",
    "1",".","0","1",".","2","0","2","6">>

\* "Venue: Somewhere Hall, 10115 Berlin"
LnVenuePostal ==
  <<"V","e","n","u","e",":"," ","S","o","m","e","w","h","e","r","e"," ","H",
    "a","l","l",","," ","1","0","1","1","5"," ","B","e","r","l","i","n">>

\* "Date: 2025-11-03"
LnDateIso ==
  <<"D","a","t","e",":"," ","2","0","2","5","-","1","1","-","0","3">>

\* "Ref: 12345, 01.01.1999"
LnRefOld ==
  <<"R","e","f",":"," ","1","2","3","4","5",","," ","0","1",".","0","1",".",
    "1","9","9","9">>

\* "Old Act, Bonn, 01.01.1999"
LnVendorOld ==
  <<"O","l","d"," ","A","c","t",","," ","B","o","n","n",","," ","0","1",".",
    "0","1",".","1","9","9","9">>

\* "City: new york"
LnCity ==
  <<"C","i","t","y",":"," ","n","e","w"," ","y","o","r","k">>

\* "Event: Synthwave Nights"
LnEvent ==
  <<"E","v","e","n","t",":"," ","S","y","n","t","h","w","a","v","e"," ","N",
    "i","g","h","t","s">>

\* "Check out our top picks!"
LnPicks ==
  <<"C","h","e","c","k"," ","o","u","t"," ","o","u","r"," ","t","o","p"," ",
    "p","i","c","k","s","!">>

\* "Venue: Columbiahalle"
LnVenueOnly ==
  <<"V","e","n","u","e",":"," ","C","o","l","u","m","b","i","a","h","a","l",
    "l","e">>

\* " , KIEL, 02.02.2026"
LnBlankAct ==
  <<" ",","," ","K","I","E","L",","," ","0","2",".","0","2",".","2","0","2",
    "6">>

\* "Act,  , 02.02.2026"
LnBlankCity ==
  <<"A","c","t",","," "," ",","," ","0","2",".","0","2",".","2","0","2","6">>

\* "<b>Date:</b> 11.03.2026<br>"
LnHtmlDate ==
  <<"<","b",">","D","a","t","e",":","<","/","b",">"," ","1","1",".","0","3",
    ".","2","0","2","6","<","b","r",">">>

\* "45.13.2026"
LnDotBad ==
  <<"4","5",".","1","3",".","2","0","2","6">>

\* "03.14.2025"
LnDotSwapped ==
  <<"0","3",".","1","4",".","2","0","2","5">>

\* "14/03/2025"
LnSlashDay ==
  <<"1","4","/","0","3","/","2","0","2","5">>

\* "03/14/2025"
LnSlashMonth ==
  <<"0","3","/","1","4","/","2","0","2","5">>

\* "14.03.2025"
LnDotDay ==
  <<"1","4",".","0","3",".","2","0","2","5">>

\* "2026-99-99"
LnIsoBad ==
  <<"2","0","2","6","-","9","9","-","9","9">>

\* "2031-01-01"
LnIsoFar ==
  <<"2","0","3","1","-","0","1","-","0","1">>

\* "March 15, 2026"
LnMonth ==
  <<"M","a","r","c","h"," ","1","5",","," ","2","0","2","6">>

\* "When: 15 March 2026"
LnWhen ==
  <<"W","h","e","n",":"," ","1","5"," ","M","a","r","c","h"," ","2","0","2",
    "6">>

\* "5.3.2026"
LnDotShort ==
  <<"5",".","3",".","2","0","2","6">>

\* "05.03.2026"
LnDotTie ==
  <<"0","5",".","0","3",".","2","0","2","6">>

\* "05/03/2026"
LnSlashTie ==
  <<"0","5","/","0","3","/","2","0","2","6">>

\* "2026-04-01"
LnIso ==
  <<"2","0","2","6","-","0","4","-","0","1">>

\* "Order date: 18.02.2026"
LnOrderDate ==
  <<"O","r","d","e","r"," ","d","a","t","e",":"," ","1","8",".","0","2",".",
    "2","0","2","6">>

\* "Date: Wed, 11.03.2026"
LnDateWed ==
  <<"D","a","t","e",":"," ","W","e","d",","," ","1","1",".","0","3",".","2",
    "0","2","6">>

\* "Synthwave Nights, Berlin, 05.03.2026"
LnSynth ==
  <<"S","y","n","t","h","w","a","v","e"," ","N","i","g","h","t","s",","," ",
    "B","e","r","l","i","n",","," ","0","5",".","0","3",".","2","0","2","6">>

\* "Artist, HAMBURG, 01.01.2026"
LnVendorUpper ==
  <<"A","r","t","i","s","t",","," ","H","A","M","B","U","R","G",","," ","0",
    "1",".","0","1",".","2","0","2","6">>

\* "City: You can check your tickets at any time by logging in"
LnCitySentence ==
  <<"C","i","t","y",":"," ","Y","o","u"," ","c","a","n"," ","c","h","e","c",
    "k"," ","y","o","u","r"," ","t","i","c","k","e","t","s"," ","a","t"," ",
    "a","n","y"," ","t","i","m","e"," ","b","y"," ","l","o","g","g","i","n",
    "g"," ","i","n">>

\* "City: 10115 *"
LnCityStar ==
  <<"C","i","t","y",":"," ","1","0","1","1","5"," ","*">>

\* "City: 10115 berlin"
LnCityPostal ==
  <<"C","i","t","y",":"," ","1","0","1","1","5"," ","b","e","r","l","i","n">>

\* "Venue: Halle, 20095 HAMBURG"
LnVenueUpper ==
  <<"V","e","n","u","e",":"," ","H","a","l","l","e",","," ","2","0","0","9",
    "5"," ","H","A","M","B","U","R","G">>

\* "15 March 2026"
LnDayMonth ==
  <<"1","5"," ","M","a","r","c","h"," ","2","0","2","6">>

\* "Venue: Columbiahalle, Columbiadamm 13-21"
LnVenueStreet ==
  <<"V","e","n","u","e",":"," ","C","o","l","u","m","b","i","a","h","a","l",
    "l","e",","," ","C","o","l","u","m","b","i","a","d","a","m","m"," ","1",
    "3","-","2","1">>

\* "Venue: SO 36, Oranienstr. 190, 10999 Berlin"
LnVenueSO ==
  <<"V","e","n","u","e",":"," ","S","O"," ","3","6",","," ","O","r","a","n",
    "i","e","n","s","t","r","."," ","1","9","0",","," ","1","0","9","9","9",
    " ","B","e","r","l","i","n">>

\* "Venue: so36"
LnVenueLower ==
  <<"V","e","n","u","e",":"," ","s","o","3","6">>

\* "Venue: Lido Promoter: X GmbH"
LnVenuePromoter ==
  <<"V","e","n","u","e",":"," ","L","i","d","o"," ","P","r","o","m","o","t",
    "e","r",":"," ","X"," ","G","m","b","H">>

\* "Venue: , Lido"
LnVenueBlankFirst ==
  <<"V","e","n","u","e",":"," ",","," ","L","i","d","o">>

\* "Where: Astra Kulturhaus"
LnWhere ==
  <<"W","h","e","r","e",":"," ","A","s","t","r","a"," ","K","u","l","t","u",
    "r","h","a","u","s">>

\* "Venue: Lido, Cuvrystr. 7, Berlin"
LnVenueThree ==
  <<"V","e","n","u","e",":"," ","L","i","d","o",","," ","C","u","v","r","y",
    "s","t","r","."," ","7",","," ","B","e","r","l","i","n">>


\* "Moderat, Berlin, 05.03.2026"
SjVendor ==
  <<"M","o","d","e","r","a","t",","," ","B","e","r","l","i","n",","," ","0",
    "5",".","0","3",".","2","0","2","6">>

\* "<td>Moderat, Berlin, 05.03.2026</td><td>Eventim</td>"
LnHtmlCells ==
  <<"<","t","d",">","M","o","d","e","r","a","t",","," ","B","e","r","l","i",
    "n",","," ","0","5",".","0","3",".","2","0","2","6","<","/","t","d",">",
    "<","t","d",">","E","v","e","n","t","i","m","<","/","t","d",">">>

\* "<p>You can check your tickets at any time by logging in</p>"
LnHtmlFooter ==
  <<"<","p",">","Y","o","u"," ","c","a","n"," ","c","h","e","c","k"," ","y",
    "o","u","r"," ","t","i","c","k","e","t","s"," ","a","t"," ","a","n","y",
    " ","t","i","m","e"," ","b","y"," ","l","o","g","g","i","n","g"," ","i",
    "n","<","/","p",">">>

\* "Doors < 20:00"
LnLess ==
  <<"D","o","o","r","s"," ","<"," ","2","0",":","0","0">>

\* "Date: 2026-04-01 replaces 05.03.2026, please keep your tickets and your receipt"
LnDateLong ==
  <<"D","a","t","e",":"," ","2","0","2","6","-","0","4","-","0","1"," ","r",
    "e","p","l","a","c","e","s"," ","0","5",".","0","3",".","2","0","2","6",
    ","," ","p","l","e","a","s","e"," ","k","e","e","p"," ","y","o","u","r",
    " ","t","i","c","k","e","t","s"," ","a","n","d"," ","y","o","u","r"," ",
    "r","e","c","e","i","p","t">>


\* "01.01.1999"
LnDotOld ==
  <<"0","1",".","0","1",".","1","9","9","9">>

\* "11.03.2026"
LnDotNew ==
  <<"1","1",".","0","3",".","2","0","2","6">>


\* a subject of 204 characters whose 200th character is a blank
SjLong == [i \in 1..204 |-> IF i = 200 THEN " " ELSE IF i > 200 THEN "y" ELSE "x"]

\* "Event: " and a name of 204 characters whose 200th character is a blank
LnEventLong ==
  <<"E","v","e","n","t",":"," ">> \o
  [i \in 1..204 |-> IF i = 200 THEN " " ELSE IF i > 200 THEN "w" ELSE "z"]

\* the emails of the field menu: vendor, venue, city and date lines
FieldSubjects == {SjNewsletter, SjEventim, SjBlank, SjDated}

FieldLines ==
  <<LnVendor, LnVenuePostal, LnDateIso, LnRefOld, LnVendorOld, LnCity, LnEvent,
    LnPicks, LnVenueOnly, LnBlankAct, LnBlankCity, LnHtmlDate>>

\* the emails of the show menu: every source of a show name, long ones too
ShowSubjects == {SjLong, SjEventim, SjBlank}

ShowLines ==
  <<LnVendor, LnDateIso, LnEvent, LnEventLong, LnBlankAct, LnPicks, LnVenueOnly>>

\* the emails of the date menu: one line for each date grammar and label
DateSubjects == {SjNewsletter, SjBlank}

DateLines ==
  <<LnDateIso, LnRefOld, LnDotBad, LnDotSwapped, LnSlashDay, LnSlashMonth,
    LnDotDay, LnDotShort, LnIsoBad, LnIsoFar, LnMonth, LnWhen, LnVendor,
    LnHtmlDate>>

\* the emails of the stage menu: dates that differ in grammar, label and
\* position in the text
StageSubjects == {SjNewsletter, SjEventim}

StageLines ==
  <<LnDotTie, LnSlashTie, LnIso, LnRefOld, LnMonth, LnOrderDate, LnDateWed,
    LnWhen, LnPicks, LnDotDay, LnDayMonth,
    LnDotOld, LnDotNew>>

\* two lines written together: a show label and a vendor line below it
PgEventVendor == LnEvent \o <<"\n">> \o LnSynth

\* two vendor lines written together, the first with a year long past
PgOldSynth == LnVendorOld \o <<"\n">> \o LnSynth

\* the emails of the vendor menu: vendor lines and the labels that compete
\* with them for the city and the date
VendorSubjects == {SjNewsletter, SjEventim}

VendorLines ==
  <<LnSynth, LnVendorUpper, LnVendorOld, LnCity, LnCitySentence, LnCityStar,
    LnCityPostal, LnVenueUpper, LnDateIso, LnEvent, PgEventVendor, PgOldSynth>>

\* emails that name the venue in different ways
VenueSubjects == {SjNewsletter, SjDated}

VenueLines ==
  <<LnVenueStreet, LnVenueSO, LnVenueLower, LnVenuePromoter, LnVenueBlankFirst,
    LnWhere, LnVenueThree, LnVenuePostal, LnVenueOnly, LnCity, LnDateIso>>

\* emails with markup and with long label values
MarkupSubjects == {SjNewsletter, SjVendor}

MarkupLines ==
  <<LnHtmlDate, LnHtmlCells, LnHtmlFooter, LnLess, LnDateLong, LnDateIso,
    LnVenueOnly, LnSynth, LnCity, LnEventLong>>

\* the emails forwarded to the inbound address
HookSubjects == {SjNewsletter, SjEventim}

HookLines == <<LnSynth, LnVendor, LnDateIso, LnDateWed, LnPicks>>

MenuLines(m) ==
  IF m = "fields" THEN FieldLines
  ELSE IF m = "show" THEN ShowLines
  ELSE IF m = "dates" THEN DateLines
  ELSE IF m = "stages" THEN StageLines
  ELSE IF m = "vendor" THEN VendorLines
  ELSE IF m = "venue" THEN VenueLines
  ELSE IF m = "markup" THEN MarkupLines
  ELSE HookLines

\* the lines of a body
splitLines(b) == IF b = <<>> THEN <<>> ELSE splitOn(b, "\n")

NoResult == [kind |-> "none", show |-> NULL, date |-> NULL, city |-> NULL, venue |-> NULL]

NoLocals == [called |-> FALSE]

\* no request has been answered
NoHook == [status |-> 0, created |-> FALSE, rows |-> <<>>]

\* no bulk import has been answered yet
NoPut == [status |-> 0]

\* a caller that has not invoked the parser
IdleCall == [pc |-> "idle", subject |-> <<>>, body |-> <<>>, loc |-> NoLocals, result |-> NoResult]

\* the most callers that invoke the parser side by side
MaxCallers == 2

Callers == 1..MaxCallers

InitWith(m, subjects) ==
  /\ menu = m
  /\ subject \in subjects
  /\ body = <<>>
  /\ pc = "compose"
  /\ loc = NoLocals
  /\ result = NoResult
  /\ calls = [c \in Callers |-> IdleCall]
  /\ hook = NoHook
  /\ table = <<>>
  /\ put = NoPut

Init == InitWith("fields", FieldSubjects)

InitShow == InitWith("show", ShowSubjects)

InitDates == InitWith("dates", DateSubjects)

InitStages == InitWith("stages", StageSubjects)

InitVendor == InitWith("vendor", VendorSubjects)

InitVenue == InitWith("venue", VenueSubjects)

InitMarkup == InitWith("markup", MarkupSubjects)

\* the sender writes one more entry of the menu, a line or two, into the body
ComposeLine(n) ==
  /\ pc = "compose"
  /\ Len(splitLines(body)) < MaxLines
  /\ body' = IF body = <<>> THEN MenuLines(menu)[n]
             ELSE body \o <<"\n">> \o MenuLines(menu)[n]
  /\ UNCHANGED <<menu, subject, pc, loc, result, calls, hook, table, put>>

\* const parsed = parseShowFromEmail(subject, body)
ParseShowFromEmail ==
  /\ pc = "compose"
  /\ pc' = "done"
  /\ loc' = locals(subject, body)
  /\ result' = parseShowFromEmail(loc')
  /\ UNCHANGED <<menu, subject, body, calls, hook, table, put>>

Next ==
  \/ \E n \in 1..Len(MenuLines(menu)) : ComposeLine(n)
  \/ ParseShowFromEmail

Spec == Init /\ [][Next]_vars

SpecShow == InitShow /\ [][Next]_vars

SpecDates == InitDates /\ [][Next]_vars

SpecStages == InitStages /\ [][Next]_vars

SpecVendor == InitVendor /\ [][Next]_vars

SpecVenue == InitVenue /\ [][Next]_vars

SpecMarkup == InitMarkup /\ [][Next]_vars

(***************************************************************************)
(* Several callers invoking the parser side by side                        *)
(***************************************************************************)

\* the arguments the callers pass
CallSubjects == {SjNewsletter, SjEventim}

CallBodies == {LnVendor, LnDateIso, LnHtmlDate}

\* the local constants of a call computed from the first caller's arguments,
\* as if text and combined were kept in variables of the module
callLocals_Shared(cs, c) == locals(cs[1].subject, cs[1].body)

\* the local constants of call c: every const of the function body is
\* computed from the call's own parameters
callLocals(cs, c) == locals(cs[c].subject, cs[c].body)

InitCalls ==
  /\ menu = "calls"
  /\ subject = <<>>
  /\ body = <<>>
  /\ pc = "calls"
  /\ loc = NoLocals
  /\ result = NoResult
  /\ calls = [c \in Callers |-> IdleCall]
  /\ hook = NoHook
  /\ table = <<>>
  /\ put = NoPut

\* caller c invokes parseShowFromEmail(s, b), for the first time or again
Invoke(c, s, b) ==
  /\ pc = "calls"
  /\ calls[c].pc \in {"idle", "done"}
  /\ calls' = [calls EXCEPT ![c] = [pc |-> "called", subject |-> s, body |-> b,
                                    loc |-> NoLocals, result |-> NoResult]]
  /\ UNCHANGED <<menu, subject, body, pc, loc, result, hook, table, put>>

\* the call of c evaluates its local constants
Extract(c) ==
  /\ pc = "calls"
  /\ calls[c].pc = "called"
  /\ calls' = [calls EXCEPT ![c].pc = "extracted", ![c].loc = callLocals(calls, c)]
  /\ UNCHANGED <<menu, subject, body, pc, loc, result, hook, table, put>>

\* the call of c returns
Return(c) ==
  /\ pc = "calls"
  /\ calls[c].pc = "extracted"
  /\ calls' = [calls EXCEPT ![c].pc = "done", ![c].result = parseShowFromEmail(calls[c].loc)]
  /\ UNCHANGED <<menu, subject, body, pc, loc, result, hook, table, put>>

NextCalls ==
  \/ \E c \in Callers, s \in CallSubjects, b \in CallBodies : Invoke(c, s, b)
  \/ \E c \in Callers : Extract(c)
  \/ \E c \in Callers : Return(c)

SpecCalls == InitCalls /\ [][NextCalls]_vars

(***************************************************************************)
(* The inbound-email handler: POST /api/gmail/webhook                      *)
(***************************************************************************)

isLeap(y) == (y % 4 = 0 /\ y % 100 # 0) \/ y % 400 = 0

daysBeforeMonth == <<0, 31, 59, 90, 120, 151, 181, 212, 243, 273, 304, 334>>

\* the number of the day y-m-d in the proleptic calendar; a day beyond the
\* end of its month counts on into the next month
dayNumber(y, m, d) ==
  365 * y + (y - 1) \div 4 - (y - 1) \div 100 + (y - 1) \div 400
    + daysBeforeMonth[m] + (IF m > 2 /\ isLeap(y) THEN 1 ELSE 0) + d

\* a time value in hours: hour h (UTC) of the day y-m-d
instant(y, m, d, h) == 24 * dayNumber(y, m, d) + h

InvalidDate == [valid |-> FALSE, t |-> 0]

\* new Date("YYYY-MM-DD"): midnight UTC of that day, Invalid Date when
\* month or day is out of range
newDateOf(y, m, d) ==
  IF m \in 1..12 /\ d \in 1..31 THEN [valid |-> TRUE, t |-> instant(y, m, d, 0)]
  ELSE InvalidDate

newDate(str) ==
  newDateOf(parseInt(SubSeq(str, 1, 4)), parseInt(SubSeq(str, 6, 7)), parseInt(SubSeq(str, 9, 10)))

\* date.setHours(0, 0, 0, 0) where local time is UTC + tz hours: midnight
\* of the local day the time value falls in
setHours0(date, tz) ==
  IF date.valid THEN [valid |-> TRUE, t |-> ((date.t + tz) \div 24) * 24 - tz]
  ELSE date

\* showDate < today ? "YES" : "NOT YET"; a comparison with Invalid Date is false
attendanceOf(showDate, today) ==
  IF showDate.valid /\ showDate.t < today.t
  THEN <<"Y","E","S">> ELSE <<"N","O","T"," ","Y","E","T">>

\* /EVENTIM/i.test(subject)
isEventim(subj) == \E i \in 1..Len(subj) : WordAt(toLowerCase(subj), i, wEventim)

\* insertData
insertData(parsed, subj, attendance) ==
  [show |-> parsed.show, date |-> parsed.date, city |-> parsed.city,
   venue |-> parsed.venue, ticket |-> <<"Y","E","S">>,
   ticket_vendor |-> IF isEventim(subj) THEN <<"E","v","e","n","t","i","m">> ELSE <<>>,
   ticket_location |-> <<"I","n"," ","A","p","p">>,
   attendance |-> attendance, note |-> NULL, qr_code_url |-> NULL]

\* a request with everything in order, received at time value now on a
\* server whose local time is UTC + tz hours
GoodRequest(now, tz) ==
  [rawBody |-> TRUE, secret |-> TRUE, verified |-> TRUE, json |-> TRUE,
   type |-> "email.received", apiKey |-> TRUE, fetched |-> TRUE,
   inserted |-> TRUE, now |-> now, tz |-> tz]

HookNows == {instant(2026, 3, 5, 2), instant(2026, 3, 5, 12)}

HookZones == {0 - 5, 0, 2}

\* the requests: the good ones, and requests with one thing out of order
HookRequests ==
  {GoodRequest(n, z) : n \in HookNows, z \in HookZones} \cup
  {[GoodRequest(instant(2026, 3, 5, 12), 0) EXCEPT !.rawBody = FALSE],
   [GoodRequest(instant(2026, 3, 5, 12), 0) EXCEPT !.verified = FALSE],
   [GoodRequest(instant(2026, 3, 5, 12), 0) EXCEPT !.secret = FALSE, !.verified = FALSE],
   [GoodRequest(instant(2026, 3, 5, 12), 0) EXCEPT !.secret = FALSE, !.json = FALSE],
   [GoodRequest(instant(2026, 3, 5, 12), 0) EXCEPT !.type = "email.sent"],
   [GoodRequest(instant(2026, 3, 5, 12), 0) EXCEPT !.apiKey = FALSE],
   [GoodRequest(instant(2026, 3, 5, 12), 0) EXCEPT !.fetched = FALSE],
   [GoodRequest(instant(2026, 3, 5, 12), 0) EXCEPT !.inserted = FALSE]}

\* the request gets as far as the call of parseShowFromEmail
reachesParser(r) ==
  /\ r.rawBody
  /\ IF r.secret THEN r.verified ELSE r.json
  /\ r.type = "email.received"
  /\ r.apiKey
  /\ r.fetched

Answer(r, status, created, rows) ==
  [req |-> r, status |-> status, created |-> created, rows |-> rows]

\* the row is built and inserted, and the request answered
answerInserted(r, parsed, subj) ==
  Answer(r, 200, TRUE,
    <<insertData(parsed, subj,
        attendanceOf(setHours0(newDate(parsed.date), r.tz),
                     setHours0([valid |-> TRUE, t |-> r.now], r.tz)))>>)

\* what a handler that goes on after a null result could store for an email that did
\* not parse: the subject as the show, a fixed date, no city and no venue
unparsedShow(r, subj) ==
  [kind |-> "show", show |-> subj, date |-> <<"2","0","2","6","-","0","3","-","0","5">>,
   city |-> Unknown, venue |-> Unknown]

\* the handler from the parsed result on, without the return for null
respondParsed_Unparsed(r, parsed, subj) ==
  IF parsed.kind = "raised" THEN Answer(r, 500, FALSE, <<>>)
  ELSE IF ~r.inserted THEN Answer(r, 500, FALSE, <<>>)
  ELSE answerInserted(r, IF parsed.kind = "null" THEN unparsedShow(r, subj) ELSE parsed, subj)

\* the handler from the parsed result on
respondParsed(r, parsed, subj) ==
  IF parsed.kind = "raised" THEN Answer(r, 500, FALSE, <<>>)
  ELSE IF parsed.kind = "null" THEN Answer(r, 200, FALSE, <<>>)
  ELSE IF ~r.inserted THEN Answer(r, 500, FALSE, <<>>)
  ELSE answerInserted(r, parsed, subj)

\* the handler: its early returns in order, then the parsed email
respond(r, parsed, subj) ==
  IF ~r.rawBody THEN Answer(r, 400, FALSE, <<>>)
  ELSE IF r.secret /\ ~r.verified THEN Answer(r, 400, FALSE, <<>>)
  ELSE IF ~r.secret /\ ~r.json THEN Answer(r, 500, FALSE, <<>>)
  ELSE IF r.type # "email.received" THEN Answer(r, 200, FALSE, <<>>)
  ELSE IF ~r.apiKey THEN Answer(r, 500, FALSE, <<>>)
  ELSE IF ~r.fetched THEN Answer(r, 502, FALSE, <<>>)
  ELSE respondParsed(r, parsed, subj)

InitHook == InitWith("hook", HookSubjects)

\* export async function POST(request): one request, answered
Post(r) ==
  /\ pc = "compose"
  /\ pc' = "done"
  /\ loc' = IF reachesParser(r) THEN locals(subject, body) ELSE NoLocals
  /\ result' = IF reachesParser(r) THEN parseShowFromEmail(loc') ELSE NoResult
  /\ hook' = respond(r, result', subject)
  /\ table' = table \o hook'.rows
  /\ UNCHANGED <<menu, subject, body, calls, put>>

NextHook ==
  \/ \E n \in 1..Len(MenuLines(menu)) : ComposeLine(n)
  \/ \E r \in HookRequests : Post(r)

SpecHook == InitHook /\ [][NextHook]_vars

(***************************************************************************)
(* PUT /api/shows: the bulk import that replaces the stored shows          *)
(***************************************************************************)

\* the most shows one import request carries
MaxShows == 2

\* /^\d{4}-\d{2}-\d{2}$/.test(date)
dateShaped(date) == Len(date) = 10 /\ IsoAt(date, 1)

\* validateDate(date, showName).valid
validateDate(date) == dateShaped(date) /\ newDate(date).valid

\* !show.show || !show.date || !show.city || !show.venue
missingFields(show) ==
  Falsy(show.show) \/ Falsy(show.date) \/ Falsy(show.city) \/ Falsy(show.venue)

\* the show passes the validation loop
showValid(show) == ~missingFields(show) /\ validateDate(show.date)

\* shows.map((show) => ({ ... })): the row inserted for a show
showToInsert(show) ==
  [show |-> show.show, date |-> show.date, city |-> show.city,
   venue |-> show.venue, ticket_vendor |-> show.ticketVendor,
   note |-> Or(show.note, NULL)]

\* a show as the client sends it
AShow(name, date, city, venue) ==
  [show |-> name, date |-> date, city |-> city, venue |-> venue,
   ticketVendor |-> <<"E","v","e","n","t","i","m">>, note |-> <<>>]

ShModerat ==
  AShow(<<"M","o","d","e","r","a","t">>, <<"2","0","2","6","-","0","3","-","0","5">>,
        <<"B","e","r","l","i","n">>, <<"L","i","d","o">>)

\* the show of an earlier import
ShArtist ==
  AShow(<<"A","r","t","i","s","t">>, <<"2","0","2","6","-","0","1","-","0","1">>,
        <<"H","a","m","b","u","r","g">>, Unknown)

\* a show without a city
ShNoCity ==
  AShow(<<"A","r","t","i","s","t">>, <<"2","0","2","6","-","0","1","-","0","1">>,
        NULL, Unknown)

\* a show whose date is not shaped YYYY-MM-DD
ShDateShape ==
  AShow(<<"A","r","t","i","s","t">>, <<"5",".","3",".","2","0","2","6">>,
        <<"H","a","m","b","u","r","g">>, Unknown)

\* a show whose date has the shape but is no date
ShDateValue ==
  AShow(<<"A","r","t","i","s","t">>, <<"2","0","2","6","-","9","9","-","9","9">>,
        <<"H","a","m","b","u","r","g">>, Unknown)

\* the shows a request is made of
PutShows == {ShModerat, ShNoCity, ShDateShape, ShDateValue}

\* the lists of shows a request may carry
PutLists == UNION {[1..n -> PutShows] : n \in 0..MaxShows}

\* the requests: the body is JSON or not, body.shows is an array or not, and
\* the delete and the insert statement succeed or fail in the database
PutRequests ==
  {[json |-> TRUE, given |-> TRUE, shows |-> l, deleteOk |-> d, insertOk |-> i] :
     l \in PutLists, d \in BOOLEAN, i \in {TRUE}} \cup
  {[json |-> TRUE, given |-> TRUE, shows |-> l, deleteOk |-> TRUE, insertOk |-> FALSE] :
     l \in PutLists} \cup
  {[json |-> FALSE, given |-> FALSE, shows |-> <<>>, deleteOk |-> TRUE, insertOk |-> TRUE],
   [json |-> TRUE, given |-> FALSE, shows |-> <<>>, deleteOk |-> TRUE, insertOk |-> TRUE]}

\* the answer to a request that found the table as it was before
PutAnswer(r, status, before) == [req |-> r, status |-> status, before |-> before]

\* the status the handler answers with
putStatus(r) ==
  IF ~r.json THEN 500
  ELSE IF ~r.given \/ Len(r.shows) = 0 THEN 400
  ELSE IF \E k \in 1..Len(r.shows) : ~showValid(r.shows[k]) THEN 400
  ELSE IF ~r.deleteOk THEN 500
  ELSE IF ~r.insertOk THEN 500
  ELSE 200

\* the delete of all rows ahead of the validation loop
putDeleted_Unvalidated(r) == r.json /\ r.given /\ Len(r.shows) > 0 /\ r.deleteOk

\* the request got as far as a successful delete of all rows
putDeleted(r) ==
  /\ r.json /\ r.given /\ Len(r.shows) > 0
  /\ \A k \in 1..Len(r.shows) : showValid(r.shows[k])
  /\ r.deleteOk

\* the stored shows after the handler has run
putTable(r, before) ==
  IF ~putDeleted(r) THEN before
  ELSE IF ~r.insertOk THEN <<>>
  ELSE [k \in 1..Len(r.shows) |-> showToInsert(r.shows[k])]

\* the table holds the shows of an earlier import, or none
InitPut ==
  /\ menu = "put"
  /\ subject = <<>>
  /\ body = <<>>
  /\ pc = "put"
  /\ loc = NoLocals
  /\ result = NoResult
  /\ calls = [c \in Callers |-> IdleCall]
  /\ hook = NoHook
  /\ table \in {<<>>, <<showToInsert(ShArtist)>>}
  /\ put = NoPut

\* export async function PUT(request): one request, answered
Put(r) ==
  /\ pc = "put"
  /\ table' = putTable(r, table)
  /\ put' = PutAnswer(r, putStatus(r), table)
  /\ UNCHANGED <<menu, subject, body, pc, loc, result, calls, hook>>

NextPut == \E r \in PutRequests : Put(r)

SpecPut == InitPut /\ [][NextPut]_vars

(***************************************************************************)
(* Properties                                                              *)
(***************************************************************************)

\* the call has returned
Done == pc = "done"

\* the call has returned a ParsedShow
Returned == pc = "done" /\ result.kind = "show"

\* the lines of the body, as the sender wrote them
bodyLines == splitLines(body)

HasLine(l) == \E i \in 1..Len(bodyLines) : bodyLines[i] = l

\* the lines of the menus that have the form <ACT>, <CITY>, <DD.MM.YYYY>
VendorShaped == {LnVendor, LnVendorOld, LnBlankAct, LnBlankCity, LnSynth, LnVendorUpper}

\* the first line of the body of the vendor form, <<>> when there is none
FirstVendorLine ==
  LET I == {i \in 1..Len(bodyLines) : bodyLines[i] \in VendorShaped}
  IN IF I = {} THEN <<>> ELSE bodyLines[Min(I)]

\* the body has no markup, so its lines reach the extractors as written
PlainBody == \A i \in 1..Len(body) : body[i] # "<"

TxtHamburg == <<"H","a","m","b","u","r","g">>
TxtKiel == <<"K","i","e","l">>
TxtBerlin == <<"B","e","r","l","i","n">>
TxtNewYork == <<"N","e","w"," ","Y","o","r","k">>
TxtArtist == <<"A","r","t","i","s","t">>
TxtModerat == <<"M","o","d","e","r","a","t">>
TxtSynthwave == <<"S","y","n","t","h","w","a","v","e"," ","N","i","g","h","t","s">>
Txt20260101 == <<"2","0","2","6","-","0","1","-","0","1">>
Txt20260202 == <<"2","0","2","6","-","0","2","-","0","2">>
Txt20250314 == <<"2","0","2","5","-","0","3","-","1","4">>
Txt20260315 == <<"2","0","2","6","-","0","3","-","1","5">>
Txt20260305 == <<"2","0","2","6","-","0","3","-","0","5">>

\* C1: a returned record has a show of 1 to 200 characters and a date that
\* is a non-empty string; no record with an empty show or without a date is
\* returned.
Thm_C1 ==
  Returned =>
    /\ result.show # NULL
    /\ Len(result.show) >= 1
    /\ Len(result.show) <= 200
    /\ result.date # NULL
    /\ Len(result.date) >= 1

\* C1 witness: a show label whose value is longer than 200 characters was
\* cut and returned
Wit_C1 ==
  /\ Returned
  /\ subject = SjLong
  /\ bodyLines = <<LnEventLong, LnDateIso>>
  /\ Len(result.show) = 199

\* the stages of date extraction and the vendor line give no plausible date
NoPlausibleDate ==
  LET combined == subject \o <<"\n">> \o loc.text
      low == toLowerCase(combined)
  IN /\ ~loc.eventimFromBody.found
     /\ \A st \in 1..6 : dateStage(combined, low, st) = NULL

\* every source of the show name is empty
ShowChainEmpty ==
  /\ Falsy(loc.eventimFromSubject)
  /\ (loc.eventimFromBody.found => loc.eventimFromBody.show = <<>>)
  /\ loc.showLabel = NULL
  /\ trim(subject) = <<>>

\* C2: the call returns null exactly when no stage yields a plausible date
\* or the show-name chain is empty, whatever city and venue are; "Weekly
\* Newsletter" with "Check out our top picks!" returns null.
Thm_C2 ==
  Done =>
    /\ (result.kind = "null") <=> (NoPlausibleDate \/ ShowChainEmpty)
    /\ (subject = SjNewsletter /\ body = LnPicks) => result.kind = "null"

\* C2 witness: null for a blank subject although date, venue and city were
\* all found
Wit_C2 ==
  /\ Done
  /\ result.kind = "null"
  /\ subject = SjBlank
  /\ loc.date # NULL
  /\ loc.cityFromVenue # NULL
  /\ loc.venueFinal # Unknown

\* the year of a date in canonical form
YearOf(d) == parseInt(SubSeq(d, 1, 4))

\* C3: the year of a returned date lies in the window
\* [currentYear - 1, currentYear + 2], whichever path produced the date.
Thm_C3 ==
  Returned => /\ YearOf(result.date) >= CurrentYear - 1
              /\ YearOf(result.date) <= CurrentYear + 2

\* C3 witness: the dot stage met a date of 1999, rejected it, and the
\* month-name stage supplied the date
Wit_C3 ==
  /\ Returned
  /\ bodyLines = <<LnRefOld, LnMonth>>
  /\ result.date = Txt20260315

\* d has the shape of four digits, hyphen, two digits, hyphen, two digits
CanonicalShape(d) ==
  /\ Len(d) = 10
  /\ \A i \in {1, 2, 3, 4, 6, 7, 9, 10} : d[i] \in Digit
  /\ d[5] = "-"
  /\ d[8] = "-"

DaysInMonth(y, m) ==
  IF m \in {4, 6, 9, 11} THEN 30
  ELSE IF m = 2
       THEN IF (y % 4 = 0 /\ y % 100 # 0) \/ y % 400 = 0 THEN 29 ELSE 28
       ELSE 31

\* d denotes a day of the calendar
RealCalendarDate(d) ==
  /\ CanonicalShape(d)
  /\ parseInt(SubSeq(d, 6, 7)) \in 1..12
  /\ parseInt(SubSeq(d, 9, 10)) \in 1..DaysInMonth(YearOf(d), parseInt(SubSeq(d, 6, 7)))

\* C4: a returned date is a real calendar date (month 01..12, day valid in
\* that month); "45.13.2026" and "2026-99-99" are never returned as dates.
Cex_C4 == Returned => RealCalendarDate(result.date)

\* C5: a returned date has the shape YYYY-MM-DD with zero-padded month and
\* day, whichever grammar it was recognized in.
Thm_C5 == Returned => CanonicalShape(result.date)

\* C5 witness: a dot date with one-digit day and month came back padded
Wit_C5 ==
  /\ Returned
  /\ body = LnDotShort
  /\ result.date = Txt20260305

\* C6: every call ends by returning a ParsedShow or null; none raises.
Thm_C6 == Done => result.kind \in {"show", "null"}

\* C6 witness: a call that found no venue label, whose venue line is
\* therefore null, returned a record
Wit_C6 ==
  /\ Returned
  /\ loc.venueRaw = NULL
  /\ loc.cityFromLabel = NULL
  /\ result.venue = Unknown

\* the date and the normalized city a plausible vendor line carries
VendorDate(l) == IF l = LnVendor THEN Txt20260101 ELSE Txt20260202

VendorCity(l) == IF l = LnVendor THEN TxtHamburg ELSE TxtKiel

ShowChain ==
  Or(loc.eventimFromSubject,
     Or(IF loc.eventimFromBody.found THEN loc.eventimFromBody.show ELSE NULL,
        Or(loc.showLabel, SubSeq(trim(subject), 1, IF Len(trim(subject)) > 200 THEN 200
                                                    ELSE Len(trim(subject))))))

\* C8 as claimed: the returned show is the first non-empty value of the
\* chain; without vendor pattern and show label it equals the trimmed
\* subject cut to 200 characters.
Cex_C8 == Returned => result.show = ShowChain

\* C8 as amended: the returned show is the first non-empty value of the
\* chain with surrounding whitespace removed.
Thm_C8 ==
  Returned =>
    /\ result.show = trim(ShowChain)
    /\ subject = SjEventim => result.show = TxtModerat
    /\ (subject # SjEventim /\ FirstVendorLine = LnVendor) => result.show = TxtArtist
    /\ (subject # SjEventim /\ FirstVendorLine \in {<<>>, LnBlankAct}
          /\ HasLine(LnEvent) /\ ~HasLine(LnEventLong)) => result.show = TxtSynthwave

\* C8 witness: neither vendor pattern nor show label matched and the
\* subject, longer than 200 characters, was cut and returned
Wit_C8 ==
  /\ Returned
  /\ subject = SjLong
  /\ Falsy(loc.eventimFromSubject)
  /\ ~loc.eventimFromBody.found
  /\ loc.showLabel = NULL
  /\ result.show = SubSeq(SjLong, 1, 199)

\* the sources of the city in their order: vendor line, venue line,
\* sanitized city label, "Unknown"
CityChain ==
  Or(IF loc.eventimFromBody.found THEN loc.eventimFromBody.city ELSE NULL,
     Or(loc.cityFromVenue,
        Or(IF Falsy(loc.cityFromLabel) THEN NULL ELSE sanitizeCityFromLabel(loc.cityFromLabel),
           Unknown)))

\* C9: the returned city is the first non-empty value of the chain (in the
\* title case every returned city has); venue and city default to
\* "Unknown" independently of each other.
Thm_C9 ==
  Returned =>
    /\ result.city = capitalizeCity(CityChain)
    /\ (FirstVendorLine = <<>> /\ HasLine(LnVenuePostal) /\ ~HasLine(LnVenueOnly) /\ PlainBody)
         => result.city = TxtBerlin
    /\ (FirstVendorLine = <<>> /\ HasLine(LnCity) /\ ~HasLine(LnVenuePostal) /\ PlainBody)
         => result.city = TxtNewYork
    /\ (FirstVendorLine = <<>> /\ ~HasLine(LnCity) /\ ~HasLine(LnVenuePostal) /\ PlainBody)
         => result.city = Unknown
    /\ (loc.venueRaw = NULL) => result.venue = Unknown

\* C9 witness: a real venue with the city "Unknown"
Wit_C9 ==
  /\ Returned
  /\ HasLine(LnVenueOnly)
  /\ result.venue # Unknown
  /\ result.city = Unknown

\* C10: when exactly one of the two leading numbers of a dot or slash date
\* exceeds 12 it is the day: "14.03.2025", "14/03/2025", "03.14.2025" and
\* "03/14/2025" all give 2025-03-14.
Cex_C10 ==
  (Returned /\ body \in {LnDotDay, LnSlashDay, LnDotSwapped, LnSlashMonth}) =>
    result.date = Txt20250314

\* C11: a dot or slash date whose two leading numbers are both at most 12
\* is read day first, month second: "05.03.2026" and "05/03/2026" both give
\* 2026-03-05.
Cex_C11 ==
  (Returned /\ body \in {LnDotTie, LnSlashTie}) => result.date = Txt20260305

\* C12 as claimed: a plain body with the line "Synthwave Nights, Berlin,
\* 05.03.2026" (and no second vendor line with a plausible year) and a
\* subject that is not a vendor subject yields show "Synthwave Nights", city
\* "Berlin" and date "2026-03-05".
Cex_C12 ==
  (Done /\ subject = SjNewsletter /\ HasLine(LnSynth) /\ ~HasLine(LnVendorUpper)) =>
    /\ result.kind = "show"
    /\ result.show = TxtSynthwave
    /\ result.city = TxtBerlin
    /\ result.date = Txt20260305

\* C12 as amended: when the first line of the vendor form in a plain body
\* has a non-blank act and city and a plausible year, and the subject is not
\* a vendor subject, the call returns the trimmed act as show, the line's
\* city in title case and the date YYYY-MM-DD built from the dot date; a
\* first vendor line with an implausible year yields no vendor match at all.
Thm_C12 ==
  (Done /\ subject = SjNewsletter /\ PlainBody) =>
    /\ FirstVendorLine = LnSynth =>
         /\ result.kind = "show"
         /\ result.show = TxtSynthwave
         /\ result.city = TxtBerlin
         /\ result.date = Txt20260305
    /\ FirstVendorLine = LnVendorUpper =>
         /\ result.kind = "show"
         /\ result.show = TxtArtist
         /\ result.city = TxtHamburg
         /\ result.date = Txt20260101
    /\ FirstVendorLine = LnVendorOld => ~loc.eventimFromBody.found

\* C12 witness: the vendor line follows a city label naming another city
\* and supplies show, city and date
Wit_C12 ==
  /\ Returned
  /\ subject = SjNewsletter
  /\ bodyLines = <<LnCity, LnSynth>>
  /\ loc.cityFromLabel # NULL
  /\ result.show = TxtSynthwave
  /\ result.city = TxtBerlin
  /\ result.date = Txt20260305

\* the city came from the city-label path: no vendor line, no city in the
\* venue line, a city label with a value
CityLabelPath ==
  /\ Returned
  /\ ~loc.eventimFromBody.found
  /\ Falsy(loc.cityFromVenue)
  /\ ~Falsy(loc.cityFromLabel)

\* the label value reads as a sentence or is not short and city-like
RejectedAsCity(v) ==
  \/ looksLikeSentence(v)
  \/ Len(v) > 50
  \/ ~cityLike(v)
  \/ Len(splitWs(v)) > 3

\* the last whitespace-delimited token of v that has 2 to 40 letters,
\* hyphens and apostrophes, NULL when there is none
LastCityToken(v) ==
  LET w == splitWs(v)
      I == {i \in 1..Len(w) : cityToken(w[i])}
  IN IF I = {} THEN NULL ELSE w[Max(I)]

TxtIn == <<"I","n">>

\* C13: on the city-label path, a label value that reads as a sentence or
\* is not short and city-like is never returned as the city: the city is
\* the value's last token of 2 to 40 letters, hyphens and apostrophes (in
\* the title case every returned city has), or "Unknown" when it has no
\* such token; "You can check your tickets at any time by logging in" is not
\* returned.
Thm_C13 ==
  (CityLabelPath /\ RejectedAsCity(loc.cityFromLabel)) =>
    /\ result.city # loc.cityFromLabel
    /\ \A i \in 1..Len(result.city) : result.city[i] \notin WS
    /\ IF LastCityToken(loc.cityFromLabel) = NULL
       THEN result.city = Unknown
       ELSE /\ result.city = capitalizeCity(LastCityToken(loc.cityFromLabel))
            /\ cityToken(result.city)
    /\ loc.cityFromLabel = SubSeq(LnCitySentence, 7, Len(LnCitySentence)) =>
         result.city = TxtIn

\* C13 witness: the sentence was the city label's value and its last token
\* came back
Wit_C13 ==
  /\ CityLabelPath
  /\ bodyLines = <<LnCitySentence, LnDateIso>>
  /\ looksLikeSentence(loc.cityFromLabel)
  /\ result.city = TxtIn

\* every word of c starts with a character that is not a lower-case letter
\* and continues without upper-case letters
TitleCased(c) ==
  \A i \in 1..Len(c) :
    IF i = 1 \/ c[i - 1] \in WS THEN c[i] \notin LowerLetter
    ELSE c[i] \notin UpperLetter

TxtHAMBURG == <<"H","A","M","B","U","R","G">>

\* C14: the city of every returned record is title-cased, whether it came
\* from the vendor line, the venue line, the city label or the "Unknown"
\* default: "HAMBURG" comes back as "Hamburg", "new york" as "New York".
Thm_C14 ==
  Returned =>
    /\ TitleCased(result.city)
    /\ (loc.eventimFromBody.found /\ loc.eventimFromBody.city = TxtHAMBURG)
         => result.city = TxtHamburg
    /\ (~loc.eventimFromBody.found /\ loc.cityFromVenue = TxtHAMBURG)
         => result.city = TxtHamburg
    /\ (~loc.eventimFromBody.found /\ Falsy(loc.cityFromVenue)
          /\ loc.sanitized = <<"n","e","w"," ","y","o","r","k">>)
         => result.city = TxtNewYork
    /\ (~loc.eventimFromBody.found /\ Falsy(loc.cityFromVenue) /\ Falsy(loc.sanitized))
         => result.city = Unknown

\* C14 witness: the venue line gave the city in capitals and it came back
\* in title case
Wit_C14 ==
  /\ Returned
  /\ bodyLines = <<LnVenueUpper, LnDateIso>>
  /\ loc.cityFromVenue = TxtHAMBURG
  /\ result.city = TxtHamburg

Txt20260401 == <<"2","0","2","6","-","0","4","-","0","1">>

\* the text the date stages and the labels are searched in
Combined == subject \o <<"\n">> \o loc.text

\* the lines of the stage menu without date-shaped text
Dateless == {LnPicks}

\* C15: a body with "Ref: 12345, 01.01.1999" and no other date-shaped text
\* yields null; the rejected date is never returned, and after rejecting it
\* extraction goes on to the later stages instead of raising an error.
Thm_C15 ==
  (Done /\ HasLine(LnRefOld)) =>
    /\ result.kind # "raised"
    /\ (\A i \in 1..Len(bodyLines) : bodyLines[i] \in {LnRefOld} \cup Dateless)
         => (result.kind = "null" /\ loc.date = NULL)
    /\ result.kind = "show" => YearOf(result.date) # 1999
    /\ bodyLines = <<LnRefOld, LnIso>> => loc.date = Txt20260401
    /\ bodyLines = <<LnRefOld, LnSlashTie>> => loc.date # NULL
    /\ bodyLines = <<LnRefOld, LnMonth>> => loc.date = Txt20260315

\* C15 witness: the dot stage rejected 01.01.1999 and the ISO stage, tried
\* after it, supplied the date
Wit_C15 ==
  /\ Returned
  /\ bodyLines = <<LnRefOld, LnIso>>
  /\ dateStageValue(Combined, toLowerCase(Combined), 3) = SubSeq(LnRefOld, 13, 22)
  /\ dateStage(Combined, toLowerCase(Combined), 3) = NULL
  /\ result.date = Txt20260401

Txt20251103 == <<"2","0","2","5","-","1","1","-","0","3">>

TxtYES == <<"Y","E","S">>

TxtNOTYET == <<"N","O","T"," ","Y","E","T">>

\* the day number of a date YYYY-MM-DD
DayOf(d) == dayNumber(YearOf(d), parseInt(SubSeq(d, 6, 7)), parseInt(SubSeq(d, 9, 10)))

\* the attendance the claim gives a date when today is the day numbered today
ClaimedAttendance(d, today) == IF DayOf(d) < today THEN TxtYES ELSE TxtNOTYET

\* C18: every row the inbound-email handler creates has ticket "YES", and
\* attendance "YES" when the parsed date is strictly before today and
\* "NOT YET" when it is today or later, today being the server's calendar
\* day (or, read the other way, the UTC day) at the time of the request.
Cex_C18 ==
  (pc = "done" /\ hook.created) =>
    /\ Len(hook.rows) = 1
    /\ hook.rows[1].ticket = TxtYES
    /\ \/ hook.rows[1].attendance =
            ClaimedAttendance(hook.rows[1].date, (hook.req.now + hook.req.tz) \div 24)
       \/ hook.rows[1].attendance =
            ClaimedAttendance(hook.rows[1].date, hook.req.now \div 24)

Txt20260311 == <<"2","0","2","6","-","0","3","-","1","1">>

\* the first of the six stages that yields a plausible date, 0 when none does
FirstStage ==
  LET K == {k \in 1..6 : dateStage(Combined, toLowerCase(Combined), k) # NULL}
  IN IF K = {} THEN 0 ELSE Min(K)

\* C19: date extraction returns the date of the first stage, in the order
\* Date:/Datum: label, other date label, dot date, ISO date, slash date,
\* month-name date, that yields a plausible date; a later stage's date is
\* returned only when every earlier stage found nothing or nothing
\* plausible.  A dot date wins over an ISO date that stands before it.
Thm_C19 ==
  (Done /\ ~loc.eventimFromBody.found) =>
    /\ loc.date = IF FirstStage = 0 THEN NULL
                  ELSE dateStage(Combined, toLowerCase(Combined), FirstStage)
    /\ bodyLines = <<LnWhen, LnDateWed>> => loc.date = Txt20260311
    /\ bodyLines = <<LnDotDay, LnWhen>> => loc.date = Txt20260315
    /\ bodyLines = <<LnIso, LnDotDay>> => loc.date = Txt20250314
    /\ bodyLines = <<LnSlashDay, LnIso>> => loc.date = Txt20260401
    /\ bodyLines = <<LnMonth, LnSlashDay>> => loc.date = Txt20250314
    /\ bodyLines = <<LnRefOld, LnMonth>> => loc.date = Txt20260315

\* C19 witness: the ISO date stands first in the text and the dot date
\* after it was returned
Wit_C19 ==
  /\ Returned
  /\ ~loc.eventimFromBody.found
  /\ bodyLines = <<LnIso, LnDotDay>>
  /\ FirstStage = 3
  /\ dateStage(Combined, toLowerCase(Combined), 4) = Txt20260401
  /\ result.date = Txt20250314

\* C20: in a plain email without vendor line that has the lines "Order
\* date: 18.02.2026" and "Date: Wed, 11.03.2026", the returned date is
\* 2026-03-11 whichever line comes first; the "date" of "Order date" is not
\* taken as the event-date label.
Thm_C20 ==
  (Done /\ HasLine(LnOrderDate) /\ PlainBody /\ ~loc.eventimFromBody.found) =>
    /\ HasLine(LnDateWed) =>
         /\ result.kind = "show"
         /\ result.date = Txt20260311
         /\ dateStageValue(Combined, toLowerCase(Combined), 1) = SubSeq(LnDateWed, 7, Len(LnDateWed))
    /\ ~HasLine(LnDateWed) => dateStageValue(Combined, toLowerCase(Combined), 1) = NULL

\* C20 witness: the order date stands first and the event date below it
\* was returned
Wit_C20 ==
  /\ Returned
  /\ bodyLines = <<LnOrderDate, LnDateWed>>
  /\ ~loc.eventimFromBody.found
  /\ result.date = Txt20260311

\* C21: a spelled-out date without a date label is extracted in both
\* orders: a text whose only date is "March 15, 2026" and a text whose only
\* date is "15 March 2026" both give the date 2026-03-15.
Cex_C21 ==
  (Done /\ subject = SjNewsletter /\ body \in {LnMonth, LnDayMonth}) =>
    (result.kind = "show" /\ result.date = Txt20260315)

\* no postal code, four or five digits and a blank, anywhere in the line
PostalFree(line) == \A k \in 1..Len(line) : postalAt(line, k) = 0

\* C22: a city is derived from the venue line only when the line carries a
\* postal code followed by a locality; a venue line without any postal code,
\* such as "Venue: Columbiahalle, Columbiadamm 13-21", contributes no city.
Cex_C22 ==
  (Returned /\ loc.venueRaw # NULL /\ PostalFree(loc.venueRaw)) =>
    (loc.cityFromVenue = NULL /\ result.city \in {Unknown, TxtNewYork})

TxtColumbiahalle == <<"C","o","l","u","m","b","i","a","h","a","l","l","e">>
TxtLido == <<"L","i","d","o">>
TxtSomewhereHall == <<"S","o","m","e","w","h","e","r","e"," ","H","a","l","l">>
TxtAstra == <<"A","s","t","r","a"," ","K","u","l","t","u","r","h","a","u","s">>

\* the lines of the venue menu that begin with the label "Venue"
VenueLabelled ==
  {LnVenueStreet, LnVenueSO, LnVenueLower, LnVenuePromoter, LnVenueBlankFirst,
   LnVenueThree, LnVenuePostal, LnVenueOnly}

\* the line whose value the venue labels find: they are tried in the order
\* of their list, venue before where, each at its first occurrence in the text
FirstVenueLine ==
  LET V == {i \in 1..Len(bodyLines) : bodyLines[i] \in VenueLabelled}
      W == {i \in 1..Len(bodyLines) : bodyLines[i] = LnWhere}
  IN IF V # {} THEN bodyLines[Min(V)]
     ELSE IF W # {} THEN bodyLines[Min(W)] ELSE <<>>

\* the venue each line of the menu names, read off the line
NamedVenue(line) ==
  IF line \in {LnVenueSO, LnVenueLower} THEN SO36
  ELSE IF line \in {LnVenueStreet, LnVenueOnly} THEN TxtColumbiahalle
  ELSE IF line \in {LnVenuePromoter, LnVenueBlankFirst, LnVenueThree} THEN TxtLido
  ELSE IF line = LnVenuePostal THEN TxtSomewhereHall
  ELSE IF line = LnWhere THEN TxtAstra
  ELSE Unknown

\* the segments of a label's value before " Promoter:", trimmed, blanks dropped
SegmentsOf(value) ==
  LET pieces == splitComma(trim(beforePromoter(value)))
  IN SelectSeq([i \in 1..Len(pieces) |-> trim(pieces[i])], LAMBDA p : p # <<>>)

\* C23: the returned venue is the first non-empty comma-separated segment of
\* the first matching venue label's value, cut before a following
\* " Promoter:"; it is "Unknown" when no venue label matches; a name that is
\* "SO36" once its whitespace is removed and it is upper-cased is returned as
\* exactly "SO36".
Thm_C23 ==
  Returned =>
    /\ result.venue = NamedVenue(FirstVenueLine)
    /\ loc.venueRaw = NULL => result.venue = Unknown
    /\ (loc.venueRaw # NULL /\ SegmentsOf(loc.venueRaw) # <<>>) =>
         result.venue = IF squeezeUpper(SegmentsOf(loc.venueRaw)[1]) = SO36
                        THEN SO36 ELSE SegmentsOf(loc.venueRaw)[1]

\* a record was returned for an email whose venue line spells the name "SO 36"
\* and goes on with a street and a postal code
Wit_C23 ==
  /\ Returned
  /\ FirstVenueLine = LnVenueSO
  /\ SegmentsOf(loc.venueRaw)[1] = <<"S","O"," ","3","6">>
  /\ result.venue = SO36

\* the body contains the character "<"
HasLt(s) == \E i \in 1..Len(s) : s[i] = "<"

\* position k of s lies in a "<...>" substring: a "<", at least one character
\* other than ">", and the first ">" after them
InTag(s, k) ==
  \E i \in 1..k :
    /\ s[i] = "<"
    /\ SkipUntil(s, i + 1, {">"}) \in (i + 2)..Len(s)
    /\ k <= SkipUntil(s, i + 1, {">"})

\* s with every character of a "<...>" substring turned into a blank
TagsBlanked(s) == [k \in 1..Len(s) |-> IF InTag(s, k) THEN " " ELSE s[k]]

\* s with every character of a "<...>" substring taken out
TagsRemoved(s) ==
  LET K == {k \in 1..Len(s) : ~InTag(s, k)}
  IN [n \in 1..Cardinality(K) |->
        s[CHOOSE k \in K : Cardinality({x \in K : x <= k}) = n]]

\* lines without a date and without the vendor form
Undated == {LnVenueOnly, LnCity, LnHtmlFooter, LnLess}

\* "Moderat, Berlin, 05.03.2026 Eventim"
TxtCells ==
  <<"M","o","d","e","r","a","t",","," ","B","e","r","l","i","n",","," ","0","5",
    ".","0","3",".","2","0","2","6"," ","E","v","e","n","t","i","m">>

\* C24 as stated: a body that contains "<" has every "<...>" substring
\* removed, its whitespace runs collapsed to one space and its ends trimmed; a
\* body without "<" is used unchanged.
Cex_C24 ==
  Done =>
    loc.text = IF HasLt(body) THEN trim(collapseWs(TagsRemoved(body))) ELSE body

\* C24, amended: a body that contains "<" has every "<...>" substring replaced
\* by a blank, its whitespace runs (newlines included) collapsed to one space
\* and its ends trimmed; a body without "<" is used unchanged; the date stages
\* and the labels search subject, newline, text, while the vendor body pattern
\* is matched against the text only, never the subject.
Thm_C24 ==
  Done =>
    /\ loc.text = IF HasLt(body) THEN trim(collapseWs(TagsBlanked(body))) ELSE body
    /\ HasLt(body) => \A i \in 1..Len(loc.text) : loc.text[i] # "\n"
    /\ body = LnHtmlCells => loc.text = TxtCells
    /\ (subject = SjVendor /\ \A i \in 1..Len(bodyLines) : bodyLines[i] \in Undated) =>
         /\ ~loc.eventimFromBody.found
         /\ result.kind = "show"
         /\ result.date = Txt20260305
         /\ result.show = SjVendor
         /\ result.city # TxtBerlin

\* a body of two lines whose first has a tag between "05.03.2026" and
\* "Eventim" was parsed: its text is one line on which the tag left a blank
Wit_C24 ==
  /\ Done
  /\ Len(bodyLines) = 2
  /\ bodyLines[1] = LnHtmlCells
  /\ SubSeq(loc.text, 1, Len(TxtCells)) = TxtCells
  /\ loc.text # trim(collapseWs(TagsRemoved(body)))
  /\ result.kind = "show" /\ result.show = TxtModerat

\* the value a label stage of extractDate captured is longer than a date
\* candidate may be
LongValue(stage) ==
  /\ dateStageValue(Combined, toLowerCase(Combined), stage) # NULL
  /\ Len(dateStageValue(Combined, toLowerCase(Combined), stage)) > MaxDateLen

\* C25: a date candidate longer than 60 characters is never converted: a
\* Date:/Datum: or other date label whose value exceeds 60 characters yields no
\* date even when the value contains valid plausible dates, and extraction goes
\* on with the later stages; label values for venue, city and show are cut to
\* at most 200 characters.
Thm_C25 ==
  Done =>
    /\ \A stage \in 1..2 :
         LongValue(stage) => dateStage(Combined, toLowerCase(Combined), stage) = NULL
    /\ bodyLines # <<>> /\ bodyLines[1] = LnDateLong =>
         LongValue(1) /\ result.kind = "show" /\ result.date = Txt20260305
    /\ bodyLines = <<LnHtmlDate, LnDateLong>> =>
         /\ LongValue(1) /\ result.kind = "show"
         /\ result.date = IF subject = SjVendor THEN Txt20260305 ELSE Txt20260311
    /\ \A v \in {loc.venueRaw, loc.cityFromLabel, loc.showLabel} :
         v # NULL => Len(v) <= MaxValueLen
    /\ body = LnEventLong =>
         loc.showLabel = SubSeq(LnEventLong, 8, 7 + MaxValueLen)

\* the markup put "Date: 11.03.2026" and a second Date: line on one line of
\* text: the label's value holds 2026-04-01 and two more dates but is too
\* long, and the date returned is the first one the dot scan finds
Wit_C25 ==
  /\ Done
  /\ subject = SjNewsletter
  /\ bodyLines = <<LnHtmlDate, LnDateLong>>
  /\ LongValue(1)
  /\ parseDate_AnyLength(dateStageValue(Combined, toLowerCase(Combined), 1)) = Txt20260401
  /\ result.kind = "show" /\ result.date = Txt20260311

\* where the grammar of a standalone stage of extractDate matches in the text
Occurrences(stage) ==
  {k \in 1..Len(Combined) :
     CASE stage = 3 -> NumDateAt(Combined, k, ".").end > 0
       [] stage = 4 -> IsoAt(Combined, k)
       [] stage = 5 -> NumDateAt(Combined, k, "/").end > 0
       [] OTHER     -> monthMatchAt(Combined, toLowerCase(Combined), k) > 0}

\* the plausible date of the occurrence at k
OccurrenceDate(stage, k) ==
  plausible(parseDate(dateStageMatch(Combined, toLowerCase(Combined), stage, k)))

\* C26: each standalone scan stage examines only the first occurrence of its
\* grammar in the text; a body whose only dates are "01.01.1999" followed by
\* "11.03.2026", without labels or vendor line, yields no date and the call
\* returns null.
Thm_C26 ==
  Done =>
    /\ \A stage \in 3..6 :
         dateStage(Combined, toLowerCase(Combined), stage) =
           IF Occurrences(stage) = {} THEN NULL
           ELSE OccurrenceDate(stage, Min(Occurrences(stage)))
    /\ bodyLines = <<LnDotOld, LnDotNew>> => result.kind = "null"
    /\ bodyLines = <<LnDotNew, LnDotOld>> =>
         result.kind = "show" /\ result.date = Txt20260311

\* the call returned null for "01.01.1999" followed by "11.03.2026", although
\* a later occurrence of the dot grammar is a plausible date
Wit_C26 ==
  /\ Done
  /\ bodyLines = <<LnDotOld, LnDotNew>>
  /\ result.kind = "null"
  /\ \E k \in Occurrences(3) : OccurrenceDate(3, k) = Txt20260311

\* "Old Act" and "Bonn", the act and the city of the vendor line of 1999
TxtOldAct == <<"O","l","d"," ","A","c","t">>
TxtBonn == <<"B","o","n","n">>

\* the show without the vendor body line: vendor subject, show label, subject
ShowElsewhere ==
  IF loc.eventimFromSubject # NULL THEN loc.eventimFromSubject
  ELSE IF ~Falsy(loc.showLabel) THEN trim(loc.showLabel)
  ELSE slice(trim(subject), 0, MaxValueLen)

\* the city without the vendor body line: venue line, city label, "Unknown"
CityElsewhere ==
  IF ~Falsy(loc.cityFromVenue) THEN loc.cityFromVenue
  ELSE IF ~Falsy(loc.sanitized) THEN loc.sanitized
  ELSE Unknown

\* C27: when the first line of the body of the form <ACT>, <CITY>,
\* <DD.MM.YYYY> has a year outside the window, the vendor body extractor
\* contributes nothing: neither that line's act nor its city is used, no later
\* line of the form is tried, and show and city come from the subject pattern,
\* the labels, the venue line, the subject or "Unknown".
Thm_C27 ==
  (Done /\ FirstVendorLine = LnVendorOld) =>
    /\ ~loc.eventimFromBody.found
    /\ Returned =>
         /\ result.show = ShowElsewhere
         /\ result.city = capitalizeCity(CityElsewhere)
         /\ result.show # TxtOldAct /\ result.city # TxtBonn
         /\ result.date # Txt20260305
    /\ bodyLines = <<LnDateIso, LnVendorOld, LnSynth>> =>
         /\ result.kind = "show"
         /\ result.date = Txt20251103
         /\ result.show = IF subject = SjEventim THEN TxtModerat ELSE subject
         /\ result.city = Unknown

\* a record was returned for a body with a date label, a vendor line of 1999
\* and below it a vendor line of 2026: nothing of either vendor line is in it
Wit_C27 ==
  /\ Returned
  /\ bodyLines = <<LnDateIso, LnVendorOld, LnSynth>>
  /\ ~loc.eventimFromBody.found
  /\ result.city = Unknown
  /\ result.date = Txt20251103

\* C28: the inbound-email handler inserts a show row only after the request
\* body was non-empty, the signature was verified when a secret is
\* configured, the event type was "email.received", the email was fetched and
\* parseShowFromEmail returned a record; on every other path no row is
\* inserted, and one request inserts at most one row.
Thm_C28 ==
  Done =>
    /\ Len(hook.rows) <= 1
    /\ hook.rows # <<>> =>
         /\ hook.req.rawBody
         /\ hook.req.secret => hook.req.verified
         /\ hook.req.type = "email.received"
         /\ hook.req.apiKey /\ hook.req.fetched
         /\ result.kind = "show"
         /\ hook.rows[1].show = result.show /\ hook.rows[1].date = result.date
         /\ hook.status = 200 /\ hook.created
    /\ hook.rows = <<>> => ~hook.created
    /\ result.kind # "show" => hook.rows = <<>>
    /\ table = hook.rows

\* a signed request for an email with a vendor line was answered: one row
Wit_C28 ==
  /\ Done
  /\ hook.req.secret /\ hook.req.verified
  /\ result.kind = "show"
  /\ Len(hook.rows) = 1
  /\ hook.rows[1].date = Txt20260305

\* a request whose signature did not verify was answered with status 400 and
\* without a row, although its email would have parsed
Wit_C28_Refused ==
  /\ Done
  /\ hook.req.secret /\ ~hook.req.verified
  /\ hook.status = 400
  /\ hook.rows = <<>>

\* a bulk import has been answered
Answered == put.status # 0

\* the shows of the requests that lack a field or have a bad date
InvalidShows == {ShNoCity, ShDateShape, ShDateValue}

\* the request's list is missing, empty, or holds an invalid show
BadList ==
  \/ ~put.req.given
  \/ put.req.shows = <<>>
  \/ \E k \in 1..Len(put.req.shows) : put.req.shows[k] \in InvalidShows

\* C29: PUT /api/shows validates every show of the request (show, date, city
\* and venue non-empty, the date shaped YYYY-MM-DD and parseable) before
\* anything is deleted: when the list is missing, empty or holds an invalid
\* show, the answer is 400 and the stored shows are what they were before.
Thm_C29 ==
  (Answered /\ put.req.json) =>
    /\ BadList => (put.status = 400 /\ table = put.before)
    /\ put.status = 400 => BadList
    /\ \A k \in 1..Len(put.req.shows) :
         showValid(put.req.shows[k]) <=> put.req.shows[k] \notin InvalidShows

\* a request whose second show has no city was answered with 400 while the
\* database would have carried out the delete: the stored show is still there
Wit_C29 ==
  /\ Answered
  /\ put.req.shows = <<ShModerat, ShNoCity>>
  /\ put.req.deleteOk
  /\ put.status = 400
  /\ put.before = <<showToInsert(ShArtist)>>
  /\ table = put.before

\* C30: whenever PUT /api/shows answers with an error status the stored shows
\* are what they were before the request; a failure of the insert that follows
\* the delete of all rows does not leave the table empty.
Cex_C30 ==
  (Answered /\ put.status >= 400) => table = put.before

=============================================================================
